---- MODULE Spec2Model ----
(***************************************************************************)
(* Aldo: a gallery of application icons.  A catalog is loaded from a       *)
(* spreadsheet (AppService.loadAppsFromSheet), enriched through the store  *)
(* lookup (AppService.getAppDetails), coloured (getDominantColor,          *)
(* getClosestColorId) and displayed by the App component, which also       *)
(* exports single icons and combined sheets (generateCombinedCanvas).      *)
(*                                                                         *)
(* Strings are TLA+ strings; a character is a string of length 1.          *)
(* Numbers the code computes in floating point (hue, saturation,           *)
(* lightness) are kept exact, as integer fractions over a common           *)
(* denominator.                                                            *)
(***************************************************************************)
EXTENDS Integers, Sequences, FiniteSets, TLC

VARIABLES
    \* hueDistance(a, b)                                   (part_002:333-336)
    hueA, hueB, hueD,
    \* generateCombinedCanvas(images, options)             (part_002:151-209)
    gcPc, gcImages, gcOptions, gcCols, gcRows, gcWidth, gcHeight, gcI, gcTiles,
    \* getClosestColorId(color)                            (part_002:338-355)
    colorInput, colorId,
    \* AppService.loadAppsFromSheet()             (appService.ts:50-116)
    shPc, shPayload, shMapped, shApps,
    \* AppService.getAppDetails(appStoreIds)     (appService.ts:147-177)
    adPc, adIds, adI, adBatches, adRequests, adResponses, adResult,
    \* App: the useState values                            (part_002:225-232)
    apps, selectedColor, totalAppCount, selectedCategory,
    searchTerm, hasSearched, searchHistory, isLoading,
    \* App: the loadAppsByCategory and searchApps calls suspended at an await,
    \* each with its locals                       (part_002:253-302, 410-472)
    runs,
    \* the handler or continuation that took the last step, and the searchValue
    \* of the last searchApps call that passed the blank check (part_002:411)
    lastCall, lastSearchValue,
    \* AppService.searchAppsByCategory(searchTerm, categories) and
    \* AppService.getAppsByCategory(categories)    (appService.ts:125-144)
    csPc, csPayload, csTerm, csCategories, csResult,
    \* App: selectedIds, copyStatus, isGenerating, globalMessage, previewDataUrl
    \*                                                     (part_002:236-240)
    selectedIds, copyStatus, isGenerating, globalMessage, previewDataUrl,
    \* the preview generations, the copySelected call and the handleCopyLogo call
    \* suspended at an await                  (part_002:389-407, 487-577)
    previews, combined, single,
    \* AppService.getDominantColor(imageUrl)     (appService.ts:180-228)
    dcPc, dcData, dcColor

hueVars == <<hueA, hueB, hueD>>
gcVars == <<gcPc, gcImages, gcOptions, gcCols, gcRows, gcWidth, gcHeight, gcI, gcTiles>>
colorVars == <<colorInput, colorId>>
shVars == <<shPc, shPayload, shMapped, shApps>>
adVars == <<adPc, adIds, adI, adBatches, adRequests, adResponses, adResult>>
appVars == <<apps, selectedColor, totalAppCount, selectedCategory, searchTerm, hasSearched,
             searchHistory, isLoading, runs, lastCall, lastSearchValue>>
csVars == <<csPc, csPayload, csTerm, csCategories, csResult>>
galleryVars == <<selectedIds, copyStatus, isGenerating, globalMessage, previewDataUrl,
                 previews, combined, single>>
dcVars == <<dcPc, dcData, dcColor>>
vars == <<hueVars, gcVars, colorVars, shVars, adVars, appVars, csVars, galleryVars, dcVars>>

\* what the steps of one component leave alone
exceptHue == <<gcVars, colorVars, shVars, adVars, appVars, csVars, galleryVars, dcVars>>
exceptGc == <<hueVars, colorVars, shVars, adVars, appVars, csVars, galleryVars, dcVars>>
exceptColor == <<hueVars, gcVars, shVars, adVars, appVars, csVars, galleryVars, dcVars>>
exceptSh == <<hueVars, gcVars, colorVars, adVars, appVars, csVars, galleryVars, dcVars>>
exceptAd == <<hueVars, gcVars, colorVars, shVars, appVars, csVars, galleryVars, dcVars>>
exceptApp == <<hueVars, gcVars, colorVars, shVars, adVars, csVars, galleryVars, dcVars>>
exceptGallery == <<hueVars, gcVars, colorVars, shVars, adVars, csVars,
                   apps, selectedColor, totalAppCount, selectedCategory, searchTerm,
                   hasSearched, searchHistory, isLoading, runs, lastSearchValue, dcVars>>
exceptCs == <<hueVars, gcVars, colorVars, shVars, adVars, appVars, galleryVars, dcVars>>
exceptDc == <<hueVars, gcVars, colorVars, shVars, adVars, appVars, csVars, galleryVars>>

(***************************************************************************)
(* Arithmetic helpers (Math.abs, Math.min, Math.max, Math.ceil,            *)
(* Math.round, Math.sqrt on the integers and fractions the code meets).    *)
(***************************************************************************)
Abs(x) == IF x < 0 THEN -x ELSE x

Min2(x, y) == IF x < y THEN x ELSE y

Max2(x, y) == IF x > y THEN x ELSE y

\* Math.ceil(p / q) for p >= 0, q > 0
CeilDiv(p, q) == (p + q - 1) \div q

\* Math.round(p / q) for p >= 0, q > 0: halves round up
RoundDiv(p, q) == (2 * p + q) \div (2 * q)

\* Math.ceil(Math.sqrt(n)) for n >= 0
CeilSqrt(n) == CHOOSE c \in 0..n : c * c >= n /\ \A b \in 0..n : b * b >= n => c <= b

(***************************************************************************)
(* hueDistance                                                             *)
(***************************************************************************)
FullTurn == 360

HalfTurn == 180

\* hueDistance on hues given in units of 1/unit degree
HueDistanceNoWrap(a, b, unit) == Abs(a - b) % (FullTurn * unit)

HueDistanceScaled(a, b, unit) ==
    LET d == Abs(a - b) % (FullTurn * unit)
    IN  IF d > HalfTurn * unit THEN FullTurn * unit - d ELSE d

HueDistance(a, b) == HueDistanceScaled(a, b, 1)

HueIdle == hueA = 0 /\ hueB = 0 /\ hueD = -1

HueInit ==
    /\ hueA \in 0..FullTurn
    /\ hueB \in 0..FullTurn
    /\ hueD = -1

HueDistanceCall ==
    /\ hueD = -1
    /\ hueD' = HueDistance(hueA, hueB)
    /\ UNCHANGED <<hueA, hueB, exceptHue>>

(***************************************************************************)
(* generateCombinedCanvas                                                  *)
(***************************************************************************)
MaxImages == 10

\* natural sizes of the icons handed in: square, wide and tall ones
ImageShapes == <<[w |-> 512, h |-> 512], [w |-> 300, h |-> 100], [w |-> 100, h |-> 250]>>

ImagesOf(n) == [i \in 1..n |-> ImageShapes[((i - 1) % Len(ImageShapes)) + 1]]

\* the two call sites: the preview (part_002:400) and copySelected (part_002:531)
CanvasOptions == {[cellSize |-> 160, gap |-> 10], [cellSize |-> 512, gap |-> 28]}

GridColsFloor(n) == IF CeilSqrt(n) * CeilSqrt(n) = n THEN CeilSqrt(n) ELSE CeilSqrt(n) - 1

GridCols(n) == CeilSqrt(n)

GridRows(n, cols) == CeilDiv(n, cols)

\* the tile of image i (0-based, as in the loop) and the rectangle drawn in it
Tile(i, img, cols, cell, gap) ==
    LET col == i % cols
        row == i \div cols
        tileX == gap + col * (cell + gap)
        tileY == gap + row * (cell + gap)
        \* aspect = naturalWidth / naturalHeight
        drawW == IF img.w < img.h THEN RoundDiv(cell * img.w, img.h) ELSE cell
        drawH == IF img.w > img.h THEN RoundDiv(cell * img.h, img.w) ELSE cell
    IN  [col |-> col, row |-> row, tileX |-> tileX, tileY |-> tileY,
         dx |-> tileX + RoundDiv(cell - drawW, 2),
         dy |-> tileY + RoundDiv(cell - drawH, 2),
         drawW |-> drawW, drawH |-> drawH]

GcIdle ==
    /\ gcPc = "idle" /\ gcImages = <<>> /\ gcOptions = [cellSize |-> 0, gap |-> 0]
    /\ gcCols = 0 /\ gcRows = 0 /\ gcWidth = 0 /\ gcHeight = 0 /\ gcI = 0
    /\ gcTiles = <<>>

GcInit ==
    /\ gcPc = "ready"
    /\ gcImages \in {ImagesOf(n) : n \in 1..MaxImages}
    /\ gcOptions \in CanvasOptions
    /\ gcCols = 0 /\ gcRows = 0 /\ gcWidth = 0 /\ gcHeight = 0 /\ gcI = 0
    /\ gcTiles = <<>>

\* await Promise.all(images.map(...)): every image loaded, or one failed
GcAllReady ==
    /\ gcPc = "ready"
    /\ LET n == Len(gcImages)
           cols == GridCols(n)
           rows == GridRows(n, cols)
           cell == gcOptions.cellSize
           gap == gcOptions.gap
       IN  /\ gcCols' = cols
           /\ gcRows' = rows
           /\ gcWidth' = cols * cell + (cols + 1) * gap
           /\ gcHeight' = rows * cell + (rows + 1) * gap
    /\ gcPc' = "draw"
    /\ UNCHANGED <<gcImages, gcOptions, gcI, gcTiles, exceptGc>>

GcImageError ==
    /\ gcPc = "ready"
    /\ gcPc' = "rejected"
    /\ UNCHANGED <<gcImages, gcOptions, gcCols, gcRows, gcWidth, gcHeight, gcI, gcTiles, exceptGc>>

\* one turn of the loop for (let i = 0; i < n; i++)
GcDraw ==
    /\ gcPc = "draw"
    /\ gcI < Len(gcImages)
    /\ gcTiles' = Append(gcTiles,
                         Tile(gcI, gcImages[gcI + 1], gcCols, gcOptions.cellSize, gcOptions.gap))
    /\ gcI' = gcI + 1
    /\ UNCHANGED <<gcPc, gcImages, gcOptions, gcCols, gcRows, gcWidth, gcHeight, exceptGc>>

GcReturn ==
    /\ gcPc = "draw"
    /\ gcI = Len(gcImages)
    /\ gcPc' = "done"
    /\ UNCHANGED <<gcImages, gcOptions, gcCols, gcRows, gcWidth, gcHeight, gcI, gcTiles, exceptGc>>

(***************************************************************************)
(* Colour classifier: COLORS, hexToHsl, getClosestColorId                  *)
(***************************************************************************)
COLORS == <<
    [id |-> "all", value |-> "all"],
    [id |-> "red", value |-> "#ff0000"],
    [id |-> "orange", value |-> "#ffa500"],
    [id |-> "yellow", value |-> "#ffff00"],
    [id |-> "green", value |-> "#00ff00"],
    [id |-> "blue", value |-> "#0000ff"],
    [id |-> "purple", value |-> "#800080"],
    [id |-> "pink", value |-> "#ff1493"],
    [id |-> "black", value |-> "#000000"],
    [id |-> "white", value |-> "#ffffff"] >>

CharAt(str, i) == SubSeq(str, i, i)

\* parseInt(c, 16) of one character matched by [a-f\d] under the i flag; -1 otherwise
HexValue(c) ==
    LET lower == "0123456789abcdef"
        upper == "0123456789ABCDEF"
    IN  IF \E k \in 1..16 : CharAt(lower, k) = c
        THEN (CHOOSE k \in 1..16 : CharAt(lower, k) = c) - 1
        ELSE IF \E k \in 1..16 : CharAt(upper, k) = c
             THEN (CHOOSE k \in 1..16 : CharAt(upper, k) = c) - 1
             ELSE -1

\* /^#?([a-f\d]{2})([a-f\d]{2})([a-f\d]{2})$/i.exec(hex): the six digits, or <<>>
HexMatch(hex) ==
    LET body == IF Len(hex) > 0 /\ CharAt(hex, 1) = "#" THEN SubSeq(hex, 2, Len(hex)) ELSE hex
    IN  IF Len(body) = 6 /\ \A k \in 1..6 : HexValue(CharAt(body, k)) >= 0
        THEN [k \in 1..6 |-> HexValue(CharAt(body, k))]
        ELSE <<>>

RECURSIVE Gcd(_, _)
Gcd(a, b) == IF b = 0 THEN a ELSE Gcd(b, a % b)

\* the fraction n/d (d > 0) in lowest terms
Frac(n, d) == LET g == Gcd(Abs(n), d) IN [n |-> n \div g, d |-> d \div g]

\* x < y, the denominators cut by their common divisor first
FracLess(x, y) ==
    LET g == Gcd(x.d, y.d)
    IN  x.n * (y.d \div g) < y.n * (x.d \div g)

\* hexToHsl from the channels times 255 (r = R/255 and so on): h in degrees, s and l
\* in 0..1, as fractions
HslOf(R, G, B) ==
    LET max == Max2(R, Max2(G, B))
        min == Min2(R, Min2(G, B))
        d == max - min
        l == Frac(max + min, 2 * 255)
        s == IF d = 0 THEN Frac(0, 1)
             ELSE IF max + min > 255   \* l > 0.5
                  THEN Frac(d, 2 * 255 - max - min)
                  ELSE Frac(d, max + min)
        \* switch (max): the first matching case among r, g, b
        h == IF d = 0 THEN Frac(0, 1)
             ELSE IF max = R THEN Frac(60 * ((G - B) + (IF G < B THEN 6 * d ELSE 0)), d)
             ELSE IF max = G THEN Frac(60 * ((B - R) + 2 * d), d)
             ELSE Frac(60 * ((R - G) + 4 * d), d)
    IN  [ok |-> TRUE, h |-> h, s |-> s, l |-> l]

\* if (!m) return null; parseInt(m[1], 16), parseInt(m[2], 16), parseInt(m[3], 16)
HslOfMatch(m) ==
    IF m = <<>> THEN [ok |-> FALSE]
    ELSE HslOf(16 * m[1] + m[2], 16 * m[3] + m[4], 16 * m[5] + m[6])

\* hexToHsl: null ([ok |-> FALSE]) or the hue, saturation and lightness
HexToHsl(hex) == HslOfMatch(HexMatch(hex))

\* hsl.s < 0.12
NeutralNever(hsl) == FALSE

IsNeutral(hsl) == FracLess(hsl.s, Frac(12, 100))

\* hsl.l > 0.8
IsLight(hsl) == FracLess(Frac(8, 10), hsl.l)

\* COLORS without 'all', 'white' and 'black', each with the hue of its value
PaletteWithHues ==
    LET chroma == SelectSeq(COLORS, LAMBDA c : c.id \notin {"all", "white", "black"})
    IN  [k \in 1..Len(chroma) |-> [id |-> chroma[k].id, h |-> HexToHsl(chroma[k].value).h]]

\* hueDistance(hsl.h, p.h) as a fraction
HueDistanceFrac(a, b) ==
    LET unit == a.d * b.d
    IN  Frac(HueDistanceScaled(a.n * b.d, b.n * a.d, unit), unit)

\* Array.prototype.sort((a, b) => a.dist - b.dist), which is stable: x goes behind
\* every element that is not farther than x
InsertByDistBefore(sorted, x) ==
    LET k == Cardinality({j \in 1..Len(sorted) : FracLess(sorted[j].dist, x.dist)})
    IN  SubSeq(sorted, 1, k) \o <<x>> \o SubSeq(sorted, k + 1, Len(sorted))

InsertByDist(sorted, x) ==
    LET k == Cardinality({j \in 1..Len(sorted) : ~FracLess(x.dist, sorted[j].dist)})
    IN  SubSeq(sorted, 1, k) \o <<x>> \o SubSeq(sorted, k + 1, Len(sorted))

RECURSIVE SortByDist(_)
SortByDist(list) ==
    IF list = <<>> THEN <<>>
    ELSE InsertByDist(SortByDist(SubSeq(list, 1, Len(list) - 1)), list[Len(list)])

GetClosestColorId(color) ==
    LET hsl == HexToHsl(color)
    IN  IF ~hsl.ok THEN "black"
        ELSE IF IsNeutral(hsl) THEN (IF IsLight(hsl) THEN "white" ELSE "black")
        ELSE LET dists == [k \in 1..Len(PaletteWithHues) |->
                              [id |-> PaletteWithHues[k].id,
                               dist |-> HueDistanceFrac(hsl.h, PaletteWithHues[k].h)]]
                 sorted == SortByDist(dists)
             IN  IF sorted = <<>> THEN "black" ELSE sorted[1].id

\* two-digit channel values the colours are built from
ChannelHex == {"00", "0b", "1a", "1c", "22", "45", "66", "80", "93", "a5", "cc",
               "e1", "e6", "fe", "ff", "FF"}

\* strings that are no 6-hex-digit colour
MalformedColors == {"", "#", "all", "#fff", "#ff45", "#gg0000", "#12345g", "ff4500 ",
                    " ff4500", "#ff45001", "##ff4500", "0xff4500", "rgb(255,69,0)"}

ColorInputs ==
    {p \o r \o g \o b : p \in {"", "#"}, r \in ChannelHex, g \in ChannelHex, b \in ChannelHex}
        \cup MalformedColors

ColorIdle == colorInput = "" /\ colorId = ""

ColorInit == colorInput \in ColorInputs /\ colorId = ""

GetClosestColorIdCall ==
    /\ colorId = ""
    /\ colorId' = GetClosestColorId(colorInput)
    /\ UNCHANGED <<colorInput, exceptColor>>

(***************************************************************************)
(* AppService.getDominantColor: the pixels of the icon are counted per     *)
(* colour and the most common colour is returned (appService.ts 180-228)   *)
(***************************************************************************)
MaxPixels == 3

\* x.toString(16) of a byte
ToString16(x) ==
    IF x < 16 THEN CharAt("0123456789abcdef", x + 1)
    ELSE CharAt("0123456789abcdef", (x \div 16) + 1) \o CharAt("0123456789abcdef", (x % 16) + 1)

\* hex.length === 1 ? '0' + hex : hex
PadHex(x) == IF Len(ToString16(x)) = 1 THEN "0" \o ToString16(x) ELSE ToString16(x)

\* '#' + [r, g, b].map(...).join('') for data[i], data[i + 1], data[i + 2]; the index i
\* counts from 0 as in the code
PixelHex(data, i) == "#" \o PadHex(data[i + 1]) \o PadHex(data[i + 2]) \o PadHex(data[i + 3])

\* colorCounts[hex] = (colorCounts[hex] || 0) + 1, colorCounts being the entries of the
\* object in the order Object.entries gives them: a key that exists keeps its place,
\* a new key comes last
CountColor(colorCounts, hex) ==
    IF \E k \in 1..Len(colorCounts) : colorCounts[k].color = hex
    THEN [k \in 1..Len(colorCounts) |->
            IF colorCounts[k].color = hex
            THEN [color |-> hex, count |-> colorCounts[k].count + 1]
            ELSE colorCounts[k]]
    ELSE Append(colorCounts, [color |-> hex, count |-> 1])

\* for (let i = 0; i < data.length; i += 4)
RECURSIVE SamplePixels(_, _, _)
SamplePixels(data, i, colorCounts) ==
    IF i < Len(data)
    THEN SamplePixels(data, i + 4, CountColor(colorCounts, PixelHex(data, i)))
    ELSE colorCounts

\* the loop over the entries with a later colour of equal count replacing the earlier
RECURSIVE MostCommonLast(_, _, _, _)
MostCommonLast(entries, k, maxCount, dominantColor) ==
    IF k > Len(entries) THEN dominantColor
    ELSE IF entries[k].count >= maxCount
         THEN MostCommonLast(entries, k + 1, entries[k].count, entries[k].color)
         ELSE MostCommonLast(entries, k + 1, maxCount, dominantColor)

\* for (const [color, count] of Object.entries(colorCounts)) if (count > maxCount) ...
RECURSIVE MostCommon(_, _, _, _)
MostCommon(entries, k, maxCount, dominantColor) ==
    IF k > Len(entries) THEN dominantColor
    ELSE IF entries[k].count > maxCount
         THEN MostCommon(entries, k + 1, entries[k].count, entries[k].color)
         ELSE MostCommon(entries, k + 1, maxCount, dominantColor)

\* img.onload from getImageData to resolve(dominantColor)
DominantColor(data) == MostCommon(SamplePixels(data, 0, <<>>), 1, 0, "#666666")

\* the colours and alpha values of the pixels of the icons
PixelColors == {<<255, 69, 0>>, <<26, 26, 26>>, <<0, 10, 255>>}

PixelAlphas == {0, 255}

\* imageData.data: r, g, b, a of every pixel in turn
ImageDataOf(pixels) ==
    [k \in 1..(4 * Len(pixels)) |->
        IF (k - 1) % 4 = 3 THEN pixels[((k - 1) \div 4) + 1][2]
        ELSE pixels[((k - 1) \div 4) + 1][1][((k - 1) % 4) + 1]]

PixelBuffers ==
    UNION {{ImageDataOf(pixels) : pixels \in [1..n -> PixelColors \X PixelAlphas]} :
              n \in 0..MaxPixels}

DcIdle == dcPc = "idle" /\ dcData = <<>> /\ dcColor = ""

\* the image is loading
DcInit == dcPc = "loading" /\ dcData \in PixelBuffers /\ dcColor = ""

\* img.onload with a 2d context: the promise resolves with the most common colour
DcLoad ==
    /\ dcPc = "loading"
    /\ dcPc' = "resolved"
    /\ dcColor' = DominantColor(dcData)
    /\ UNCHANGED <<dcData, exceptDc>>

\* img.onerror, or img.onload without a 2d context: the promise rejects
DcReject ==
    /\ dcPc = "loading"
    /\ dcPc' = "rejected"
    /\ UNCHANGED <<dcData, dcColor, exceptDc>>

(***************************************************************************)
(* JavaScript values and strings                                           *)
(***************************************************************************)
\* a cell value v of the gviz payload: null, a number, a string or a boolean
Null == [t |-> "null"]

Num(n) == [t |-> "number", v |-> n]

NaN == [t |-> "nan"]

Str(x) == [t |-> "string", v |-> x]

Bool(b) == [t |-> "boolean", v |-> b]

\* the index of character c in str, 0 when it is not there
IndexIn(str, c) ==
    IF \E k \in 1..Len(str) : CharAt(str, k) = c
    THEN CHOOSE k \in 1..Len(str) : CharAt(str, k) = c /\ \A j \in 1..(k - 1) : CharAt(str, j) # c
    ELSE 0

LowerLetters == "abcdefghijklmnopqrstuvwxyz"

UpperLetters == "ABCDEFGHIJKLMNOPQRSTUVWXYZ"

DecimalDigits == "0123456789"

IsSpace(c) == c = " "

LowerChar(c) == IF IndexIn(UpperLetters, c) > 0 THEN CharAt(LowerLetters, IndexIn(UpperLetters, c)) ELSE c

\* String.prototype.toLowerCase
RECURSIVE ToLowerCase(_)
ToLowerCase(str) ==
    IF Len(str) = 0 THEN "" ELSE LowerChar(CharAt(str, 1)) \o ToLowerCase(SubSeq(str, 2, Len(str)))

RECURSIVE TrimStart(_)
TrimStart(str) ==
    IF Len(str) > 0 /\ IsSpace(CharAt(str, 1)) THEN TrimStart(SubSeq(str, 2, Len(str))) ELSE str

RECURSIVE TrimEnd(_)
TrimEnd(str) ==
    IF Len(str) > 0 /\ IsSpace(CharAt(str, Len(str)))
    THEN TrimEnd(SubSeq(str, 1, Len(str) - 1)) ELSE str

\* String.prototype.trim
Trim(str) == TrimEnd(TrimStart(str))

\* String(n) of an integer
RECURSIVE NatToString(_)
NatToString(n) ==
    IF n < 10 THEN CharAt(DecimalDigits, n + 1)
    ELSE NatToString(n \div 10) \o CharAt(DecimalDigits, (n % 10) + 1)

NumberToString(n) == IF n < 0 THEN "-" \o NatToString(-n) ELSE NatToString(n)

\* String(v)
JsString(val) ==
    CASE val.t = "string" -> val.v
      [] val.t = "number" -> NumberToString(val.v)
      [] val.t = "boolean" -> (IF val.v THEN "true" ELSE "false")
      [] val.t = "nan" -> "NaN"
      [] OTHER -> "null"

\* ToBoolean(v)
Truthy(val) ==
    CASE val.t = "string" -> val.v # ""
      [] val.t = "number" -> val.v # 0
      [] val.t = "boolean" -> val.v
      [] OTHER -> FALSE

\* the value of the longest prefix of decimal digits of str
RECURSIVE DigitsValue(_, _)
DigitsValue(str, acc) ==
    IF Len(str) > 0 /\ IndexIn(DecimalDigits, CharAt(str, 1)) > 0
    THEN DigitsValue(SubSeq(str, 2, Len(str)), 10 * acc + IndexIn(DecimalDigits, CharAt(str, 1)) - 1)
    ELSE acc

\* parseInt(str, 10): white space, a sign, digits; NaN when no digit follows
ParseInt(str) ==
    LET t == TrimStart(str)
        signed == Len(t) > 0 /\ CharAt(t, 1) \in {"-", "+"}
        body == IF signed THEN SubSeq(t, 2, Len(t)) ELSE t
        mag == DigitsValue(body, 0)
    IN  IF Len(body) = 0 \/ IndexIn(DecimalDigits, CharAt(body, 1)) = 0 THEN NaN
        ELSE Num(IF signed /\ CharAt(t, 1) = "-" THEN -mag ELSE mag)

\* Number.isFinite(v)
IsFinite(val) == val.t = "number"

(***************************************************************************)
(* AppService.loadAppsFromSheet                                            *)
(***************************************************************************)
\* a column {label} and a row {c}; a cell is written as its value v, Null standing
\* for a null cell as for a cell whose v is null
Col(label) == [t |-> "object", label |-> label]

Row(c) == [t |-> "object", c |-> c]

\* (payload?.table?.cols ?? []).filter(Boolean)
SheetCols(payload) ==
    IF payload.table THEN SelectSeq(payload.cols, LAMBDA col : col.t # "null") ELSE <<>>

\* (payload?.table?.rows ?? []).filter(Boolean)
SheetRows(payload) ==
    IF payload.table THEN SelectSeq(payload.rows, LAMBDA row : row.t # "null") ELSE <<>>

\* labelToIndex[label]: the last column whose trimmed lower-case label is label, 0 if none
LabelToIndex(cols, label) ==
    LET hits == {k \in 1..Len(cols) :
                    cols[k].label.t = "string" /\ ToLowerCase(Trim(cols[k].label.v)) = label}
    IN  IF hits = {} THEN 0 ELSE CHOOSE k \in hits : \A j \in hits : j <= k

\* getVal(row, label)
GetVal(cols, row, label) ==
    LET idx == LabelToIndex(cols, label)
    IN  IF idx = 0 THEN Null
        ELSE IF idx > Len(row.c) THEN Null
        ELSE row.c[idx]

\* the record rows.map(...) builds of one row; name is a string cell, category a
\* string cell or Null (undefined)
MapRow(cols, row) ==
    LET idRaw == GetVal(cols, row, "id")
        nameRaw == GetVal(cols, row, "name")
        appStoreIdRaw == GetVal(cols, row, "app_store_id")
        categoryRaw == GetVal(cols, row, "category")
    IN  [id |-> IF idRaw.t = "number" THEN idRaw
                ELSE ParseInt(JsString(IF Truthy(idRaw) THEN idRaw ELSE Str("0"))),
         name |-> IF nameRaw.t = "null" THEN "" ELSE nameRaw.v,
         app_store_id |-> IF appStoreIdRaw.t # "null" THEN JsString(appStoreIdRaw) ELSE "",
         category |-> categoryRaw]

\* .filter(a => Number.isFinite(a.id) && a.name && a.app_store_id)
RowKept(a) == IsFinite(a.id) /\ a.name # "" /\ a.app_store_id # ""

MapRows(payload) ==
    LET cols == SheetCols(payload)
        rows == SheetRows(payload)
    IN  [k \in 1..Len(rows) |-> MapRow(cols, rows[k])]

LoadAppsFromSheet(payload) == SelectSeq(MapRows(payload), RowKept)

\* column layouts (the labels, and which cell of a row stands under each): plain,
\* labels to trim and lower-case, a column without a label in front, no id column
SheetLayouts == {
    [cols |-> <<Col(Str("id")), Col(Str("name")), Col(Str("app_store_id")), Col(Str("category"))>>,
     under |-> <<"id", "name", "app_store_id", "category">>],
    [cols |-> <<Col(Str(" ID ")), Col(Str("Name")), Col(Str("APP_STORE_ID")), Col(Str("Category "))>>,
     under |-> <<"id", "name", "app_store_id", "category">>],
    [cols |-> <<Col(Null), Col(Str("id")), Col(Str("name")), Col(Str("app_store_id"))>>,
     under |-> <<"other", "id", "name", "app_store_id">>],
    [cols |-> <<Col(Str("name")), Col(Str("app_store_id")), Col(Str("category"))>>,
     under |-> <<"name", "app_store_id", "category">>] }

IdCells == {Null, Num(0), Num(7), Num(-3), Str(""), Str("7"), Str("0"), Str("-3"), Str(" 12"),
            Str("12px"), Str("abc"), Bool(TRUE), Bool(FALSE)}

NameCells == {Null, Str(""), Str("Zeta"), Str(" ")}

AppStoreIdCells == {Null, Str(""), Str("111"), Num(111), Num(0)}

CategoryCells == {Null, Str("app")}

\* the cells of a row under a layout
RowUnder(layout, id, name, asid, cat) ==
    Row([k \in 1..Len(layout.under) |->
            CASE layout.under[k] = "id" -> id
              [] layout.under[k] = "name" -> name
              [] layout.under[k] = "app_store_id" -> asid
              [] layout.under[k] = "category" -> cat
              [] OTHER -> Str("x")])

SheetPayloads ==
    {[table |-> TRUE, cols |-> layout.cols,
      rows |-> <<RowUnder(layout, id, name, asid, cat)>>] :
        layout \in SheetLayouts, id \in IdCells, name \in NameCells,
        asid \in AppStoreIdCells, cat \in CategoryCells}
    \cup {[table |-> TRUE, cols |-> layout.cols,
           rows |-> <<Null, RowUnder(layout, id, Str("Zeta"), Str("111"), Null),
                      RowUnder(layout, Num(2), Str("Alpha"), Num(222), Str("app"))>>] :
            layout \in SheetLayouts, id \in IdCells}
    \cup {[table |-> FALSE, cols |-> <<>>, rows |-> <<>>]}

ShIdle == shPc = "idle" /\ shPayload = [table |-> FALSE, cols |-> <<>>, rows |-> <<>>]
          /\ shMapped = <<>> /\ shApps = <<>>

ShInit == shPc = "fetch" /\ shPayload \in SheetPayloads /\ shMapped = <<>> /\ shApps = <<>>

\* fetch, response.json() or JSON.parse throws: the error is logged and thrown again
ShFetchFails ==
    /\ shPc = "fetch"
    /\ shPc' = "thrown"
    /\ UNCHANGED <<shPayload, shMapped, shApps, exceptSh>>

ShLoad ==
    /\ shPc = "fetch"
    /\ shMapped' = MapRows(shPayload)
    /\ shApps' = LoadAppsFromSheet(shPayload)
    /\ shPc' = "returned"
    /\ UNCHANGED <<shPayload, exceptSh>>

(***************************************************************************)
(* AppService.getAppDetails                                                *)
(***************************************************************************)
batchSize == 10

MaxIds == 21

\* appStoreIds.slice(i, i + batchSize), i counted from 0
BatchSliceShort(ids, i) == SubSeq(ids, i + 1, Min2(i + batchSize - 1, Len(ids)))

BatchSlice(ids, i) == SubSeq(ids, i + 1, Min2(i + batchSize, Len(ids)))

\* batch.join(',')
RECURSIVE JoinComma(_)
JoinComma(list) ==
    IF list = <<>> THEN ""
    ELSE IF Len(list) = 1 THEN list[1]
    ELSE list[1] \o "," \o JoinComma(Tail(list))

\* results.flatMap(result => result.results || [])
RECURSIVE FlatMapResults(_)
FlatMapResults(results) ==
    IF results = <<>> THEN <<>>
    ELSE (IF results[1].hasResults THEN results[1].results ELSE <<>>)
             \o FlatMapResults(Tail(results))

\* what the store has for one identifier
StoreRecord(id) ==
    [trackId |-> ParseInt(id).v, trackName |-> "Store " \o id,
     artworkUrl100 |-> "icon/" \o NumberToString(ParseInt(id).v) \o "/100x100bb.jpg"]

Reverse(list) == [k \in 1..Len(list) |-> list[Len(list) + 1 - k]]

\* bodies the lookup may answer a batch with: every record in the order asked, the
\* records in the opposite order, the records in the opposite order with one
\* identifier unknown to the store, or an error envelope without results
StoreAnswers(batch) ==
    LET found == [k \in 1..Len(batch) |-> StoreRecord(batch[k])]
    IN  {[settled |-> TRUE, hasResults |-> TRUE, results |-> found],
         [settled |-> TRUE, hasResults |-> TRUE, results |-> Reverse(found)],
         [settled |-> TRUE, hasResults |-> TRUE, results |-> Reverse(Tail(found))],
         [settled |-> TRUE, hasResults |-> FALSE, results |-> <<>>]}

\* a request not answered yet
Pending == [settled |-> FALSE, hasResults |-> FALSE, results |-> <<>>]

IdsOf(n) == [k \in 1..n |-> NumberToString(100 + k)]

AdIdle ==
    /\ adPc = "idle" /\ adIds = <<>> /\ adI = 0 /\ adBatches = <<>> /\ adRequests = <<>>
    /\ adResponses = <<>> /\ adResult = <<>>

AdInit ==
    /\ adPc = "loop"
    /\ adIds \in {IdsOf(n) : n \in 0..MaxIds}
    /\ adI = 0 /\ adBatches = <<>> /\ adRequests = <<>> /\ adResponses = <<>>
    /\ adResult = <<>>

\* one turn of for (let i = 0; i < appStoreIds.length; i += batchSize)
AdPushBatch ==
    /\ adPc = "loop"
    /\ adI < Len(adIds)
    /\ adBatches' = Append(adBatches, BatchSlice(adIds, adI))
    /\ adI' = adI + batchSize
    /\ UNCHANGED <<adPc, adIds, adRequests, adResponses, adResult, exceptAd>>

\* batches.map(batch => fetch(getItunesUrl(batch.join(',')))...): every request is
\* issued before the first answer is awaited
AdIssueRequests ==
    /\ adPc = "loop"
    /\ adI >= Len(adIds)
    /\ adRequests' = [k \in 1..Len(adBatches) |-> JoinComma(adBatches[k])]
    /\ adResponses' = [k \in 1..Len(adBatches) |-> Pending]
    /\ adPc' = "await"
    /\ UNCHANGED <<adIds, adI, adBatches, adResult, exceptAd>>

\* the answer to request k arrives and parses
AdResponse(k) ==
    /\ adPc = "await"
    /\ adResponses[k] = Pending
    /\ \E answer \in StoreAnswers(adBatches[k]) :
           adResponses' = [adResponses EXCEPT ![k] = answer]
    /\ UNCHANGED <<adPc, adIds, adI, adBatches, adRequests, adResult, exceptAd>>

\* fetch or res.json() of request k rejects: Promise.all rejects, the error is logged
\* and thrown again
AdReject(k) ==
    /\ adPc = "await"
    /\ adResponses[k] = Pending
    /\ adPc' = "thrown"
    /\ UNCHANGED <<adIds, adI, adBatches, adRequests, adResponses, adResult, exceptAd>>

\* Promise.all resolves with the answers in the order of the batches
AdReturn ==
    /\ adPc = "await"
    /\ \A k \in 1..Len(adResponses) : adResponses[k] # Pending
    /\ adResult' = FlatMapResults(adResponses)
    /\ adPc' = "returned"
    /\ UNCHANGED <<adIds, adI, adBatches, adRequests, adResponses, exceptAd>>

(***************************************************************************)
(* String.prototype.includes and localeCompare, Array.prototype.sort       *)
(***************************************************************************)
\* str.includes(sub)
Includes(str, sub) ==
    \E i \in 1..(Len(str) + 1) :
        i + Len(sub) - 1 <= Len(str) /\ SubSeq(str, i, i + Len(sub) - 1) = sub

\* the primary collation weight of a character: white space, then other signs, then
\* digits, then letters in alphabetical order whatever their case
CollationWeight(c) ==
    IF IsSpace(c) THEN 1
    ELSE IF IndexIn(DecimalDigits, c) > 0 THEN 10 + IndexIn(DecimalDigits, c)
    ELSE IF IndexIn(LowerLetters, LowerChar(c)) > 0 THEN 30 + IndexIn(LowerLetters, LowerChar(c))
    ELSE 2

\* the strings compared by primary weight: -1, 0 or 1
RECURSIVE ComparePrimary(_, _)
ComparePrimary(a, b) ==
    IF a = "" /\ b = "" THEN 0
    ELSE IF a = "" THEN -1
    ELSE IF b = "" THEN 1
    ELSE IF CollationWeight(CharAt(a, 1)) < CollationWeight(CharAt(b, 1)) THEN -1
    ELSE IF CollationWeight(CharAt(a, 1)) > CollationWeight(CharAt(b, 1)) THEN 1
    ELSE ComparePrimary(SubSeq(a, 2, Len(a)), SubSeq(b, 2, Len(b)))

\* strings of equal primary weight compared by case: lower case first
RECURSIVE CompareCase(_, _)
CompareCase(a, b) ==
    IF a = "" \/ b = "" THEN 0
    ELSE IF CharAt(a, 1) = CharAt(b, 1) THEN CompareCase(SubSeq(a, 2, Len(a)), SubSeq(b, 2, Len(b)))
    ELSE IF LowerChar(CharAt(a, 1)) = CharAt(a, 1) THEN -1
    ELSE 1

\* a.localeCompare(b), computed
CompareStrings(a, b) ==
    IF ComparePrimary(a, b) # 0 THEN ComparePrimary(a, b) ELSE CompareCase(a, b)

\* the names the catalog and the store of this model give
KnownNames == {"Zeta", "Alpha", "Beta", "Store 111", "Store 222", "Store 0333"}

\* a.localeCompare(b), tabulated once over the names of the model
LocaleOrder == [a \in KnownNames, b \in KnownNames |-> CompareStrings(a, b)]

\* a comparison that finds every two strings equal
CompareNone(a, b) == 0

\* a.localeCompare(b)
LocaleCompare(a, b) == LocaleOrder[a, b]

\* list.sort((a, b) => Key(a).localeCompare(Key(b))): the sort is stable
SortByLocale(list, Key(_)) ==
    LET n == Len(list)
        before(j, i) ==
            \/ LocaleCompare(Key(list[j]), Key(list[i])) < 0
            \/ LocaleCompare(Key(list[j]), Key(list[i])) = 0 /\ j < i
        pos(i) == 1 + Cardinality({j \in 1..n : before(j, i)})
    IN  [p \in 1..n |-> list[CHOOSE i \in 1..n : pos(i) = p]]

\* list.includes(x)
InList(list, x) == \E k \in 1..Len(list) : list[k] = x

(***************************************************************************)
(* AppService.getAllApps, getAppsByCategory, searchAppsByCategory, as      *)
(* functions of the payload the sheet answers with                         *)
(***************************************************************************)
GetAllApps(payload) == SortByLocale(LoadAppsFromSheet(payload), LAMBDA a : a.name)

\* a.category && categories.includes(a.category)
CategoryIn(a, categories) ==
    Truthy(a.category) /\ a.category.t = "string" /\ InList(categories, a.category.v)

GetAppsByCategory(payload, categories) ==
    IF InList(categories, "all") THEN GetAllApps(payload)
    ELSE SortByLocale(SelectSeq(LoadAppsFromSheet(payload),
                                LAMBDA a : CategoryIn(a, categories)),
                      LAMBDA a : a.name)

SearchAppsByCategory(payload, term, categories) ==
    LET needle == ToLowerCase(Trim(term))
        byName == SelectSeq(LoadAppsFromSheet(payload),
                            LAMBDA a : Includes(ToLowerCase(a.name), needle))
        result == IF InList(categories, "all") THEN byName
                  ELSE SelectSeq(byName, LAMBDA a : CategoryIn(a, categories))
    IN  SortByLocale(result, LAMBDA a : a.name)

(***************************************************************************)
(* The App component: state, handlers and the continuations of             *)
(* loadAppsByCategory and searchApps                                       *)
(***************************************************************************)
\* calls of loadAppsByCategory and searchApps that can be suspended at once
MaxRuns == 1

\* the calls that may overlap where a specification lets them overlap
MaxOverlap == 2

\* [searchValue, ...prev.filter(t => t !== searchValue)].slice(0, 5)
historyLimit == 5

fallbackColor == "#666666"

\* the callback of allApps.map for an entry: not settled yet, or settled through
\* its catch block
pendingColor == "pending"
rejectedColor == "rejected"

\* the categories searchApps passes to searchAppsByCategory
searchCategories == <<"app", "game">>

\* the catalog sheet: two applications and a game whose app_store_id is written
\* with a leading zero, the rows in either order, and the sheet without rows
AppSheetCols ==
    <<Col(Str("id")), Col(Str("name")), Col(Str("app_store_id")), Col(Str("category"))>>

AppSheetRows ==
    <<Row(<<Num(1), Str("Zeta"), Str("111"), Str("app")>>),
      Row(<<Num(2), Str("Alpha"), Num(222), Str("app")>>),
      Row(<<Num(3), Str("Beta"), Str("0333"), Str("game")>>)>>

AppSheets ==
    {[table |-> TRUE, cols |-> AppSheetCols, rows |-> AppSheetRows],
     [table |-> TRUE, cols |-> AppSheetCols, rows |-> Reverse(AppSheetRows)],
     [table |-> TRUE, cols |-> AppSheetCols, rows |-> <<>>]}

\* one call searchAppsByCategory(searchTerm, categories)
\* the category cells of the sheet: none, the two tabs, a category without a tab
CsCategoryCells == {Null, Str("app"), Str("game"), Str("tool")}

CsSheets ==
    {[table |-> TRUE, cols |-> AppSheetCols,
      rows |-> <<Row(<<Num(1), Str("Zeta"), Str("111"), zeta>>),
                 Row(<<Num(2), Str("Alpha"), Num(222), alpha>>),
                 Row(<<Num(3), Str("Beta"), Str("0333"), beta>>)>>] :
        zeta \in CsCategoryCells, alpha \in CsCategoryCells, beta \in CsCategoryCells}

CsTerms == {"ze", " ZE ", "a", "x"}

CsIdle ==
    /\ csPc = "idle" /\ csPayload = [table |-> FALSE, cols |-> <<>>, rows |-> <<>>]
    /\ csTerm = "" /\ csCategories = <<>> /\ csResult = <<>>

\* the call is suspended at await this.loadAppsFromSheet()
CsInit ==
    /\ csPc = "await"
    /\ csPayload \in CsSheets
    /\ csTerm \in CsTerms
    /\ csCategories \in {searchCategories, <<"all">>}
    /\ csResult = <<>>

\* the sheet answers and the call returns
CsLoaded ==
    /\ csPc = "await"
    /\ csResult' = SearchAppsByCategory(csPayload, csTerm, csCategories)
    /\ csPc' = "returned"
    /\ UNCHANGED <<csPayload, csTerm, csCategories, exceptCs>>

\* loadAppsFromSheet throws
CsFails ==
    /\ csPc = "await"
    /\ csPc' = "thrown"
    /\ UNCHANGED <<csPayload, csTerm, csCategories, csResult, exceptCs>>

\* the colour getDominantColor resolves with for an icon that loads
DominantColorOf(url) ==
    CASE url = "icon/111/100x100bb.jpg" -> "#ff4500"
      [] url = "icon/222/100x100bb.jpg" -> "#1a1a1a"
      [] OTHER -> "#00ffff"

\* what is typed in the search input, the colour dots clicked, the category tabs
SearchTerms == {"", "ze"}

HistoryTerms == {"", " ", "ze", "q1", "q2", "q3", "q4", "q5"}

ColorChoices == {"all", "black"}

Categories == {"app", "game"}

\* getAppsByCategory([category]) and searchAppsByCategory(searchValue, ['app', 'game'])
\* tabulated once over the sheets, the categories and the terms of the model
CategoryAnswers ==
    [payload \in AppSheets, category \in Categories |->
        GetAppsByCategory(payload, <<category>>)]

SearchAnswers ==
    [payload \in AppSheets, searchValue \in SearchTerms \cup HistoryTerms |->
        SearchAppsByCategory(payload, searchValue, searchCategories)]

\* getClosestColorId tabulated once over the colours the icons of the model have
ClosestColorIds ==
    [color \in {"#ff4500", "#1a1a1a", "#00ffff", fallbackColor} |-> GetClosestColorId(color)]

\* appsFromDb.map(app => app.app_store_id)
IdsIn(fromDb) == [k \in 1..Len(fromDb) |-> fromDb[k].app_store_id]

\* the batches getAppDetails cuts a list of identifiers into
Batches(ids) ==
    [k \in 1..CeilDiv(Len(ids), batchSize) |-> BatchSlice(ids, (k - 1) * batchSize)]

\* the answers the store may give to the batches of a list of identifiers
AnswerLists(ids) ==
    LET batches == Batches(ids)
        any == UNION {StoreAnswers(batches[k]) : k \in 1..Len(batches)}
    IN  {answers \in [1..Len(batches) -> any] :
            \A k \in 1..Len(batches) : answers[k] \in StoreAnswers(batches[k])}

\* the lists of identifiers the catalog of the model yields, and the answers the store
\* may give to each of them, tabulated once
CatalogIdLists ==
    {IdsIn(CategoryAnswers[payload, category]) :
        payload \in AppSheets, category \in Categories}
    \cup {IdsIn(SearchAnswers[payload, searchValue]) :
            payload \in AppSheets, searchValue \in SearchTerms \cup HistoryTerms}

StoreAnswerLists ==
    [ids \in CatalogIdLists |-> {answers : answers \in AnswerLists(ids)}]

\* the answers when the store returns every record in the order asked
AnswersInOrder(ids) ==
    LET batches == Batches(ids)
    IN  [k \in 1..Len(batches) |->
            [settled |-> TRUE, hasResults |-> TRUE,
             results |-> [j \in 1..Len(batches[k]) |-> StoreRecord(batches[k][j])]]]

\* appDetails.map(app => ({...app, trackName: dbApp ? dbApp.name : app.trackName}))
\* taking the catalog record at the same position
JoinByPosition(fromDb, appDetails) ==
    [k \in 1..Len(appDetails) |->
        [appDetails[k] EXCEPT
            !.trackName = IF k <= Len(fromDb) THEN fromDb[k].name ELSE @]]

\* app.trackId.toString() for the records of the model, tabulated once
TrackIds == {111, 222, 333}

IdStrings == [n \in TrackIds |-> NumberToString(n)]

\* appDetails.map(app => ({...app, trackName: dbApp ? dbApp.name : app.trackName}))
\* with dbApp = fromDb.find(dbApp => dbApp.app_store_id === app.trackId.toString())
JoinNames(fromDb, appDetails) ==
    [k \in 1..Len(appDetails) |->
        LET hits == {j \in 1..Len(fromDb) :
                        fromDb[j].app_store_id = IdStrings[appDetails[k].trackId]}
        IN  [appDetails[k] EXCEPT
                !.trackName = IF hits = {} THEN @
                              ELSE fromDb[CHOOSE j \in hits : \A i \in hits : j <= i].name]]

\* [searchValue, ...prev.filter(t => t !== searchValue)]
AddToHistoryUnbounded(prev, searchValue) ==
    <<searchValue>> \o SelectSeq(prev, LAMBDA t : t # searchValue)

\* prev => [searchValue, ...prev.filter(t => t !== searchValue)].slice(0, 5)
AddToHistory(prev, searchValue) ==
    SubSeq(AddToHistoryUnbounded(prev, searchValue), 1,
           Min2(historyLimit, Len(AddToHistoryUnbounded(prev, searchValue))))

\* the filter with 'all' compared like any other bucket
ColorFilteredNoWildcard ==
    SelectSeq(apps, LAMBDA app :
        ClosestColorIds[IF app.dominantColor # "" THEN app.dominantColor
                        ELSE fallbackColor] = selectedColor)

\* apps.filter(app => selectedColor === 'all' ||
\*                     getClosestColorId(app.dominantColor || '#666666') === selectedColor)
ColorFiltered ==
    SelectSeq(apps, LAMBDA app :
        \/ selectedColor = "all"
        \/ ClosestColorIds[IF app.dominantColor # "" THEN app.dominantColor
                           ELSE fallbackColor] = selectedColor)

\* const filteredApps = apps.filter(...).sort(...); displayedApps = filteredApps
DisplayedApps == SortByLocale(ColorFiltered, LAMBDA app : app.trackName)

\* loadAppsByCategory() suspended at its first await: arg is the selectedCategory it
\* closes over
LoadRun(category) ==
    [pc |-> "catalog", kind |-> "load", arg |-> category, term |-> "",
     fromDb |-> <<>>, appDetails |-> <<>>, allApps |-> <<>>, colors |-> <<>>]

\* searchApps(term) suspended at its first await: arg is searchValue, term is "" for
\* no argument
SearchRun(searchValue, term) ==
    [pc |-> "catalog", kind |-> "search", arg |-> searchValue, term |-> term,
     fromDb |-> <<>>, appDetails |-> <<>>, allApps |-> <<>>, colors |-> <<>>]

AppIdle ==
    /\ apps = <<>> /\ selectedColor = "all" /\ totalAppCount = 0 /\ selectedCategory = "app"
    /\ searchTerm = "" /\ hasSearched = FALSE /\ searchHistory = <<>> /\ isLoading = FALSE
    /\ runs = <<>> /\ lastCall = "" /\ lastSearchValue = ""

\* the first render and its effect, which calls loadAppsByCategory()
AppInit ==
    /\ apps = <<>> /\ selectedColor = "all" /\ totalAppCount = 0 /\ selectedCategory = "app"
    /\ searchTerm = "" /\ hasSearched = FALSE /\ searchHistory = <<>> /\ isLoading = TRUE
    /\ runs = <<LoadRun("app")>>
    /\ lastCall = "" /\ lastSearchValue = ""

\* the suspended calls, in the order they started
Runs == 1..Len(runs)

\* a category tab is clicked and the calls in flight are abandoned
SelectCategoryCancelling(category) ==
    /\ selectedCategory # category
    /\ Len(runs) < MaxOverlap
    /\ selectedCategory' = category
    /\ isLoading' = TRUE
    /\ runs' = <<LoadRun(category)>>
    /\ lastCall' = ""
    /\ UNCHANGED <<apps, selectedColor, totalAppCount, searchTerm, hasSearched,
                   searchHistory, lastSearchValue, exceptApp>>

\* a category tab is clicked; the effect then calls the new loadAppsByCategory
SelectCategory(category) ==
    /\ selectedCategory # category
    /\ Len(runs) < MaxOverlap
    /\ selectedCategory' = category
    /\ isLoading' = TRUE
    /\ runs' = Append(runs, LoadRun(category))
    /\ lastCall' = ""
    /\ UNCHANGED <<apps, selectedColor, totalAppCount, searchTerm, hasSearched,
                   searchHistory, lastSearchValue, exceptApp>>

\* the search input changes
SetSearchTerm(value) ==
    /\ searchTerm' = value
    /\ lastCall' = ""
    /\ UNCHANGED <<apps, selectedColor, totalAppCount, selectedCategory, hasSearched,
                   searchHistory, isLoading, runs, lastSearchValue, exceptApp>>

\* a colour dot is clicked
SetSelectedColor(id) ==
    /\ selectedColor' = id
    /\ lastCall' = ""
    /\ UNCHANGED <<apps, totalAppCount, selectedCategory, searchTerm, hasSearched,
                   searchHistory, isLoading, runs, lastSearchValue, exceptApp>>

\* searchApps(term) with the blank check on searchValue itself, not on its trim
SearchAppsUntrimmed(term) ==
    LET searchValue == IF term # "" THEN term ELSE searchTerm
    IN  /\ lastCall' = (IF term = "" THEN "searchApps()" ELSE "")
        /\ searchValue # ""
        /\ Len(runs) < MaxOverlap
        /\ isLoading' = TRUE
        /\ searchHistory' = AddToHistory(searchHistory, searchValue)
        /\ runs' = Append(runs, SearchRun(searchValue, term))
        /\ lastSearchValue' = searchValue
        /\ UNCHANGED <<apps, selectedColor, totalAppCount, selectedCategory,
                       searchTerm, hasSearched, exceptApp>>

\* searchApps(term) up to its first await; term is "" when there is no argument
\* (Enter or the search icon), a history entry when the dropdown is clicked
SearchApps(term) ==
    LET searchValue == IF term # "" THEN term ELSE searchTerm
    IN  /\ lastCall' = (IF term = "" THEN "searchApps()" ELSE "")
        /\ IF Trim(searchValue) = ""
           THEN UNCHANGED <<apps, selectedColor, totalAppCount, selectedCategory,
                            searchTerm, hasSearched, searchHistory, isLoading, runs,
                            lastSearchValue, exceptApp>>
           ELSE /\ Len(runs) < MaxOverlap
                /\ isLoading' = TRUE
                /\ searchHistory' = AddToHistory(searchHistory, searchValue)
                /\ runs' = Append(runs, SearchRun(searchValue, term))
                /\ lastSearchValue' = searchValue
                /\ UNCHANGED <<apps, selectedColor, totalAppCount, selectedCategory,
                               searchTerm, hasSearched, exceptApp>>

\* the clear icon, shown once a search has completed
ClearSearch ==
    /\ hasSearched
    /\ Len(runs) < MaxOverlap
    /\ searchTerm' = ""
    /\ hasSearched' = FALSE
    /\ isLoading' = TRUE
    /\ runs' = Append(runs, LoadRun(selectedCategory))
    /\ lastCall' = ""
    /\ UNCHANGED <<apps, selectedColor, totalAppCount, selectedCategory, searchHistory,
                   lastSearchValue, exceptApp>>

\* the end of the call without the finally block
FinishSpinning(r) ==
    /\ runs' = [k \in 1..(Len(runs) - 1) |-> IF k < r THEN runs[k] ELSE runs[k + 1]]
    /\ isLoading' = isLoading

\* finally { setIsLoading(false) } and the end of the call
Finish(r) ==
    /\ runs' = [k \in 1..(Len(runs) - 1) |-> IF k < r THEN runs[k] ELSE runs[k + 1]]
    /\ isLoading' = FALSE

\* the catalog fetch fails: the service throws, the caller logs the error
CatalogFails(r) ==
    /\ r \in Runs
    /\ runs[r].pc = "catalog"
    /\ Finish(r)
    /\ lastCall' = ""
    /\ UNCHANGED <<apps, selectedColor, totalAppCount, selectedCategory, searchTerm,
                   hasSearched, searchHistory, lastSearchValue, exceptApp>>

\* the catalog answers; the call goes on to getAppDetails and its second await
CatalogLoaded(r, payload) ==
    /\ r \in Runs
    /\ runs[r].pc = "catalog"
    /\ lastCall' = ""
    /\ IF runs[r].kind = "load"
       THEN LET appsFromDb == CategoryAnswers[payload, runs[r].arg]
            IN  /\ totalAppCount' = Len(appsFromDb)
                /\ IF Len(appsFromDb) = 0
                   THEN /\ apps' = <<>>
                        /\ Finish(r)
                   ELSE /\ runs' = [runs EXCEPT ![r].pc = "details",
                                                ![r].fromDb = appsFromDb]
                        /\ UNCHANGED <<apps, isLoading>>
       ELSE /\ runs' = [runs EXCEPT
                           ![r].pc = "details",
                           ![r].fromDb = SearchAnswers[payload, runs[r].arg]]
            /\ UNCHANGED <<apps, isLoading, totalAppCount>>
    /\ UNCHANGED <<selectedColor, selectedCategory, searchTerm, hasSearched,
                   searchHistory, lastSearchValue, exceptApp>>

\* the catch block with the list cleared as well
DetailsRejectsClearing(r) ==
    /\ r \in Runs
    /\ runs[r].pc = "details"
    /\ Len(runs[r].fromDb) > 0
    /\ Finish(r)
    /\ apps' = <<>>
    /\ lastCall' = ""
    /\ UNCHANGED <<selectedColor, totalAppCount, selectedCategory, searchTerm,
                   hasSearched, searchHistory, lastSearchValue, exceptApp>>

\* a store request fails: getAppDetails throws, the caller logs the error
DetailsRejects(r) ==
    /\ r \in Runs
    /\ runs[r].pc = "details"
    /\ Len(runs[r].fromDb) > 0
    /\ Finish(r)
    /\ lastCall' = ""
    /\ UNCHANGED <<apps, selectedColor, totalAppCount, selectedCategory, searchTerm,
                   hasSearched, searchHistory, lastSearchValue, exceptApp>>

\* getAppDetails resolves; the names are joined, the list sorted, and the colour
\* extractions started
DetailsLoaded(r, answers) ==
    /\ r \in Runs
    /\ runs[r].pc = "details"
    /\ runs' = [runs EXCEPT
                   ![r].pc = "colors",
                   ![r].appDetails = FlatMapResults(answers),
                   ![r].allApps = SortByLocale(JoinNames(runs[r].fromDb,
                                                         FlatMapResults(answers)),
                                               LAMBDA app : app.trackName),
                   ![r].colors = [k \in 1..Len(FlatMapResults(answers)) |-> pendingColor]]
    /\ lastCall' = ""
    /\ UNCHANGED <<apps, selectedColor, totalAppCount, selectedCategory, searchTerm,
                   hasSearched, searchHistory, isLoading, lastSearchValue, exceptApp>>

\* the callback of allApps.map for entry k settles: getDominantColor resolved with the
\* colour of the icon, or rejected and the catch block took over
ExtractionSettles(r, k, rejects) ==
    /\ r \in Runs
    /\ runs[r].pc = "colors"
    /\ k \in 1..Len(runs[r].colors)
    /\ runs[r].colors[k] = pendingColor
    /\ runs' = [runs EXCEPT
                   ![r].colors[k] = IF rejects THEN rejectedColor
                                    ELSE DominantColorOf(runs[r].allApps[k].artworkUrl100)]
    /\ lastCall' = ""
    /\ UNCHANGED <<apps, selectedColor, totalAppCount, selectedCategory, searchTerm,
                   hasSearched, searchHistory, isLoading, lastSearchValue, exceptApp>>

\* appsWithColors with the records whose extraction rejected left out
AppsWithColorsDropping(allApps, colors) ==
    LET kept == SelectSeq([k \in 1..Len(allApps) |-> k],
                          LAMBDA k : colors[k] # rejectedColor)
    IN  [i \in 1..Len(kept) |->
            [trackId |-> allApps[kept[i]].trackId,
             trackName |-> allApps[kept[i]].trackName,
             artworkUrl100 |-> allApps[kept[i]].artworkUrl100,
             dominantColor |-> colors[kept[i]]]]

\* appsWithColors with the colours attached in the opposite order
AppsWithColorsSwapped(allApps, colors) ==
    [k \in 1..Len(allApps) |->
        [trackId |-> allApps[k].trackId,
         trackName |-> allApps[k].trackName,
         artworkUrl100 |-> allApps[k].artworkUrl100,
         dominantColor |-> IF colors[Len(allApps) + 1 - k] = rejectedColor
                           THEN fallbackColor
                           ELSE colors[Len(allApps) + 1 - k]]]

\* appsWithColors: { ...app, dominantColor: color } or, where the extraction
\* rejected, { ...app, dominantColor: '#666666' }
AppsWithColors(allApps, colors) ==
    [k \in 1..Len(allApps) |->
        [trackId |-> allApps[k].trackId,
         trackName |-> allApps[k].trackName,
         artworkUrl100 |-> allApps[k].artworkUrl100,
         dominantColor |-> IF colors[k] = rejectedColor THEN fallbackColor
                           ELSE colors[k]]]

\* the list written without waiting for the callbacks that have not settled
ColorsSettledEarly(r) ==
    /\ r \in Runs
    /\ runs[r].pc = "colors"
    /\ apps' = AppsWithColors(runs[r].allApps, runs[r].colors)
    /\ IF runs[r].kind = "search"
       THEN /\ hasSearched' = TRUE
            /\ searchTerm' = (IF runs[r].term # "" THEN runs[r].term ELSE searchTerm)
       ELSE UNCHANGED <<hasSearched, searchTerm>>
    /\ Finish(r)
    /\ lastCall' = ""
    /\ UNCHANGED <<selectedColor, totalAppCount, selectedCategory, searchHistory,
                   lastSearchValue, exceptApp>>

\* Promise.all resolves once every callback has settled; the list is written
ColorsSettled(r) ==
    /\ r \in Runs
    /\ runs[r].pc = "colors"
    /\ \A k \in 1..Len(runs[r].colors) : runs[r].colors[k] # pendingColor
    /\ apps' = AppsWithColors(runs[r].allApps, runs[r].colors)
    /\ IF runs[r].kind = "search"
       THEN /\ hasSearched' = TRUE
            /\ searchTerm' = (IF runs[r].term # "" THEN runs[r].term ELSE searchTerm)
       ELSE UNCHANGED <<hasSearched, searchTerm>>
    /\ Finish(r)
    /\ lastCall' = ""
    /\ UNCHANGED <<selectedColor, totalAppCount, selectedCategory, searchHistory,
                   lastSearchValue, exceptApp>>

\* the entries of the search history dropdown
HistoryEntries == {searchHistory[k] : k \in 1..Len(searchHistory)}

(***************************************************************************)
(* The App component: selection, preview and export                        *)
(***************************************************************************)
\* preview generations that can be suspended at once
MaxPreviews == 2

\* copyStatus without entries
noStatus == [id \in {} |-> ""]

\* { ...prev, [appId]: message }
WithStatus(prev, appId, message) ==
    [id \in DOMAIN prev \cup {appId} |-> IF id = appId THEN message ELSE prev[id]]

\* const newStatus = { ...prev }; delete newStatus[appId]
WithoutStatus(prev, appId) == [id \in DOMAIN prev \ {appId} |-> prev[id]]

\* `app-logos-${selectedIds.length}.png`
CombinedFileNames == [n \in 0..Cardinality(TrackIds) |-> "app-logos-" \o NatToString(n) \o ".png"]

singleFileName == "app-logo.png"

\* no copySelected call and no handleCopyLogo call is suspended; clipboard tells
\* whether the browser has navigator.clipboard and ClipboardItem
NoCombined == [pc |-> "idle", ids |-> <<>>, imgs |-> <<>>, clipboard |-> FALSE]

NoSingle == [pc |-> "idle", appId |-> "", img |-> "", clipboard |-> FALSE]

\* what a step leaves in lastCall when navigator.clipboard.write resolved, and when
\* Escape was pressed
writeResolved == "clipboard.write resolved"
escapeKey == "Escape"

GalleryIdle ==
    /\ selectedIds = <<>> /\ copyStatus = noStatus /\ isGenerating = FALSE
    /\ globalMessage = "" /\ previewDataUrl = <<>> /\ previews = <<>>
    /\ combined = NoCombined /\ single = NoSingle

\* imgRefs.current: the img elements of the cards rendered, one for each of the
\* displayedApps; the cards are not rendered while the spinner is shown
ImgRefs ==
    IF isLoading THEN {}
    ELSE {IdStrings[ColorFiltered[k].trackId] : k \in 1..Len(ColorFiltered)}

\* ids.map(id => imgRefs.current.get(id)).filter(el => !!el)
Mounted(ids) == SelectSeq(ids, LAMBDA id : id \in ImgRefs)

\* the effect on selectedIds: the preview is dropped for an empty selection, kept where
\* no selected card is rendered, and generated again otherwise
PreviewEffect(ids) ==
    IF Len(ids) = 0
    THEN previewDataUrl' = <<>> /\ previews' = previews
    ELSE IF Len(Mounted(ids)) = 0
    THEN UNCHANGED <<previewDataUrl, previews>>
    ELSE /\ Len(previews) < MaxPreviews
         /\ previews' = Append(previews, Mounted(ids))
         /\ UNCHANGED previewDataUrl

\* generateCombinedCanvas of preview generation p resolves: setPreviewDataUrl
PreviewReady(p) ==
    /\ p \in 1..Len(previews)
    /\ previewDataUrl' = previews[p]
    /\ previews' = [k \in 1..(Len(previews) - 1) |->
                       IF k < p THEN previews[k] ELSE previews[k + 1]]
    /\ lastCall' = ""
    /\ UNCHANGED <<selectedIds, copyStatus, isGenerating, globalMessage, combined, single,
                   exceptGallery>>

\* generateCombinedCanvas of preview generation p rejects: the error is logged
PreviewFails(p) ==
    /\ p \in 1..Len(previews)
    /\ previews' = [k \in 1..(Len(previews) - 1) |->
                       IF k < p THEN previews[k] ELSE previews[k + 1]]
    /\ lastCall' = ""
    /\ UNCHANGED <<selectedIds, copyStatus, isGenerating, globalMessage, previewDataUrl,
                   combined, single, exceptGallery>>

\* prev => prev.includes(appId) ? prev.filter(id => id !== appId) : [...prev, appId]
Toggled(prev, appId) ==
    IF InList(prev, appId) THEN SelectSeq(prev, LAMBDA id : id # appId)
    ELSE Append(prev, appId)

\* the checkbox of a rendered card is clicked
ToggleSelect(appId) ==
    /\ appId \in ImgRefs
    /\ selectedIds' = Toggled(selectedIds, appId)
    /\ PreviewEffect(Toggled(selectedIds, appId))
    /\ lastCall' = ""
    /\ UNCHANGED <<copyStatus, isGenerating, globalMessage, combined, single, exceptGallery>>

\* handleKeyDown for Ctrl+A or Cmd+A outside an input
SelectAll ==
    /\ selectedIds' = [k \in 1..Len(DisplayedApps) |-> IdStrings[DisplayedApps[k].trackId]]
    /\ PreviewEffect([k \in 1..Len(DisplayedApps) |-> IdStrings[DisplayedApps[k].trackId]])
    /\ lastCall' = ""
    /\ UNCHANGED <<copyStatus, isGenerating, globalMessage, combined, single, exceptGallery>>

\* handleKeyDown for Escape with setCopyStatus({}) alone
EscapeKeepsSelection ==
    /\ copyStatus' = noStatus
    /\ lastCall' = escapeKey
    /\ UNCHANGED <<selectedIds, previewDataUrl, previews, isGenerating, globalMessage,
                   combined, single, exceptGallery>>

\* handleKeyDown for Escape
Escape ==
    /\ copyStatus' = noStatus
    /\ selectedIds' = <<>>
    /\ PreviewEffect(<<>>)
    /\ lastCall' = escapeKey
    /\ UNCHANGED <<isGenerating, globalMessage, combined, single, exceptGallery>>

\* the Clear button of the selection bar
ClearSelection ==
    /\ Len(selectedIds) > 0
    /\ ~isGenerating
    /\ selectedIds' = <<>>
    /\ PreviewEffect(<<>>)
    /\ lastCall' = ""
    /\ UNCHANGED <<copyStatus, isGenerating, globalMessage, combined, single, exceptGallery>>

\* the messages of the toast and of the copy buttons
copiedCombined == "Copied combined image to clipboard"
downloadedCombined == "Downloaded combined image"
failedToCopy == "Failed to copy"
copiedStatus == "Copied!"
downloadedStatus == "Downloaded!"

\* the Copy combined button: copySelected up to its first await, or to its end where
\* no selected card is rendered
CopySelected(clipboardSupport) ==
    /\ Len(selectedIds) > 0
    /\ ~isGenerating
    /\ IF Len(Mounted(selectedIds)) = 0
       THEN /\ globalMessage' = failedToCopy
            /\ UNCHANGED <<combined, isGenerating>>
       ELSE /\ combined' = [pc |-> "canvas", ids |-> selectedIds,
                            imgs |-> Mounted(selectedIds), clipboard |-> clipboardSupport]
            /\ isGenerating' = TRUE
            /\ UNCHANGED globalMessage
    /\ lastCall' = ""
    /\ UNCHANGED <<selectedIds, copyStatus, previewDataUrl, previews, single, exceptGallery>>

\* catch (e) { setGlobalMessage('Failed to copy') } finally { setIsGenerating(false) }
CombinedThrows ==
    /\ combined' = NoCombined
    /\ globalMessage' = failedToCopy
    /\ isGenerating' = FALSE
    /\ lastCall' = ""
    /\ UNCHANGED <<selectedIds, copyStatus, previewDataUrl, previews, single, exceptGallery>>

\* generateCombinedCanvas rejects: an image fails to load
CanvasFails ==
    /\ combined.pc = "canvas"
    /\ CombinedThrows

\* generateCombinedCanvas resolves; canvas.toBlob is called
CanvasReady ==
    /\ combined.pc = "canvas"
    /\ combined' = [combined EXCEPT !.pc = "blob"]
    /\ lastCall' = ""
    /\ UNCHANGED <<selectedIds, copyStatus, isGenerating, globalMessage, previewDataUrl,
                   previews, single, exceptGallery>>

\* canvas.toBlob yields no blob
BlobFails ==
    /\ combined.pc = "blob"
    /\ CombinedThrows

\* the anchor with download = `app-logos-${selectedIds.length}.png` is clicked, the
\* message set, the selection emptied and the call ends
CombinedDownload ==
    /\ lastCall' = CombinedFileNames[Len(combined.ids)]
    /\ globalMessage' = downloadedCombined
    /\ selectedIds' = <<>>
    /\ PreviewEffect(<<>>)
    /\ combined' = NoCombined
    /\ isGenerating' = FALSE
    /\ UNCHANGED <<copyStatus, single, exceptGallery>>

\* the blob is there: navigator.clipboard.write is called where the browser has
\* navigator.clipboard and ClipboardItem, the file is downloaded where it has not
BlobReady ==
    /\ combined.pc = "blob"
    /\ IF combined.clipboard
       THEN /\ combined' = [combined EXCEPT !.pc = "clipboard"]
            /\ lastCall' = ""
            /\ UNCHANGED <<selectedIds, copyStatus, isGenerating, globalMessage,
                           previewDataUrl, previews, single, exceptGallery>>
       ELSE CombinedDownload

\* navigator.clipboard.write resolves
ClipboardWritten ==
    /\ combined.pc = "clipboard"
    /\ lastCall' = writeResolved
    /\ globalMessage' = copiedCombined
    /\ selectedIds' = <<>>
    /\ PreviewEffect(<<>>)
    /\ combined' = NoCombined
    /\ isGenerating' = FALSE
    /\ UNCHANGED <<copyStatus, single, exceptGallery>>

\* navigator.clipboard.write rejects and the rejection reaches the outer catch
ClipboardRejectsFailing ==
    /\ combined.pc = "clipboard"
    /\ CombinedThrows

\* navigator.clipboard.write rejects
ClipboardRejects ==
    /\ combined.pc = "clipboard"
    /\ CombinedDownload

\* setTimeout(() => setGlobalMessage(null), 1500)
MessageExpires ==
    /\ globalMessage # ""
    /\ globalMessage' = ""
    /\ lastCall' = ""
    /\ UNCHANGED <<selectedIds, copyStatus, isGenerating, previewDataUrl, previews,
                   combined, single, exceptGallery>>

\* the states of the img element of a card when its Copy button is clicked
ImageStates == {"loaded", "loading", "failed"}

\* the Copy button of a rendered card: handleCopyLogo and copySingleImageWithRadius up
\* to the first await, on the load of the image or on canvas.toBlob
CopyLogo(appId, img, clipboardSupport) ==
    /\ appId \in ImgRefs
    /\ single.pc = "idle"
    /\ single' = [pc |-> IF img = "loaded" THEN "blob" ELSE "load",
                  appId |-> appId, img |-> img, clipboard |-> clipboardSupport]
    /\ lastCall' = ""
    /\ UNCHANGED <<selectedIds, copyStatus, isGenerating, globalMessage, previewDataUrl,
                   previews, combined, exceptGallery>>

\* catch (error) { setCopyStatus(prev => ({ ...prev, [appId]: 'Failed to copy' })) }
SingleThrows ==
    /\ single' = NoSingle
    /\ copyStatus' = WithStatus(copyStatus, single.appId, failedToCopy)
    /\ lastCall' = ""
    /\ UNCHANGED <<selectedIds, isGenerating, globalMessage, previewDataUrl, previews,
                   combined, exceptGallery>>

\* the load event of an image that was still loading
ImageLoads ==
    /\ single.pc = "load"
    /\ single.img = "loading"
    /\ single' = [single EXCEPT !.pc = "blob"]
    /\ lastCall' = ""
    /\ UNCHANGED <<selectedIds, copyStatus, isGenerating, globalMessage, previewDataUrl,
                   previews, combined, exceptGallery>>

\* the error event of an image that was still loading
ImageErrors ==
    /\ single.pc = "load"
    /\ single.img = "loading"
    /\ SingleThrows

\* canvas.toBlob yields no blob
SingleBlobFails ==
    /\ single.pc = "blob"
    /\ SingleThrows

\* the anchor with download = 'app-logo.png' is clicked and 'downloaded' returned
SingleDownload ==
    /\ lastCall' = singleFileName
    /\ copyStatus' = WithStatus(copyStatus, single.appId, downloadedStatus)
    /\ single' = NoSingle
    /\ UNCHANGED <<selectedIds, isGenerating, globalMessage, previewDataUrl, previews,
                   combined, exceptGallery>>

\* the blob is there: navigator.clipboard.write is called, or the file downloaded
SingleBlobReady ==
    /\ single.pc = "blob"
    /\ IF single.clipboard
       THEN /\ single' = [single EXCEPT !.pc = "clipboard"]
            /\ lastCall' = ""
            /\ UNCHANGED <<selectedIds, copyStatus, isGenerating, globalMessage,
                           previewDataUrl, previews, combined, exceptGallery>>
       ELSE SingleDownload

\* navigator.clipboard.write resolves and 'copied' is returned
SingleClipboardWritten ==
    /\ single.pc = "clipboard"
    /\ lastCall' = writeResolved
    /\ copyStatus' = WithStatus(copyStatus, single.appId, copiedStatus)
    /\ single' = NoSingle
    /\ UNCHANGED <<selectedIds, isGenerating, globalMessage, previewDataUrl, previews,
                   combined, exceptGallery>>

\* navigator.clipboard.write rejects
SingleClipboardRejects ==
    /\ single.pc = "clipboard"
    /\ SingleDownload

\* setTimeout(() => setCopyStatus(prev => { delete newStatus[appId] }), 1200)
StatusExpires(appId) ==
    /\ appId \in DOMAIN copyStatus
    /\ copyStatus' = WithoutStatus(copyStatus, appId)
    /\ lastCall' = ""
    /\ UNCHANGED <<selectedIds, isGenerating, globalMessage, previewDataUrl, previews,
                   combined, single, exceptGallery>>

Init ==
    AppInit /\ GalleryIdle /\ HueIdle /\ GcIdle /\ ColorIdle /\ ShIdle /\ AdIdle /\ CsIdle /\ DcIdle

\* the events of the App component and the answers of its calls; submitting a blank
\* search box returns at once and changes nothing, SpecSearch takes those steps
Next ==
    \/ (\E category \in Categories : SelectCategory(category)) /\ Len(runs') <= MaxRuns
    \/ \E value \in SearchTerms : SetSearchTerm(value)
    \/ \E id \in ColorChoices : SetSelectedColor(id)
    \/ Trim(searchTerm) # "" /\ SearchApps("") /\ Len(runs') <= MaxRuns
    \/ (\E term \in HistoryEntries : SearchApps(term)) /\ Len(runs') <= MaxRuns
    \/ ClearSearch /\ Len(runs') <= MaxRuns
    \/ \E r \in Runs : CatalogFails(r)
    \/ \E r \in Runs : \E payload \in AppSheets : CatalogLoaded(r, payload)
    \/ \E r \in Runs : DetailsRejects(r)
    \/ \E r \in Runs : \E answers \in StoreAnswerLists[IdsIn(runs[r].fromDb)] :
            DetailsLoaded(r, answers)
    \/ \E r \in Runs : \E k \in 1..Len(runs[r].colors) : \E rejects \in BOOLEAN :
            ExtractionSettles(r, k, rejects)
    \/ \E r \in Runs : ColorsSettled(r)

Spec == Init /\ [][Next]_vars

\* the search box alone, one search at a time: terms are typed, submitted and picked
\* from the history; the sheet answers or fails, the store and the icons answer
SpecSearchNext ==
    \/ \E value \in HistoryTerms : SetSearchTerm(value)
    \/ SearchApps("") /\ Len(runs') <= 1
    \/ \E term \in HistoryEntries : SearchApps(term) /\ Len(runs') <= 1
    \/ \E r \in Runs : CatalogFails(r)
    \/ \E r \in Runs : \E payload \in AppSheets : CatalogLoaded(r, payload)
    \/ \E r \in Runs : DetailsLoaded(r, AnswersInOrder(IdsIn(runs[r].fromDb)))
    \/ \E r \in Runs : \E k \in 1..Len(runs[r].colors) : ExtractionSettles(r, k, FALSE)
    \/ \E r \in Runs : ColorsSettled(r)

SpecSearch == Init /\ [][SpecSearchNext]_vars

\* the sheet as it usually answers
CatalogSheet == [table |-> TRUE, cols |-> AppSheetCols, rows |-> AppSheetRows]

\* calls that overlap: the tabs are switched and searches submitted while earlier
\* calls are suspended; the sheet, the store and the icons answer, or the sheet fails
SpecRaceNext ==
    \/ \E category \in Categories : SelectCategory(category)
    \/ \E value \in SearchTerms : SetSearchTerm(value)
    \/ SearchApps("")
    \/ ClearSearch
    \/ \E r \in Runs : CatalogFails(r)
    \/ \E r \in Runs : CatalogLoaded(r, CatalogSheet)
    \/ \E r \in Runs : DetailsLoaded(r, AnswersInOrder(IdsIn(runs[r].fromDb)))
    \/ \E r \in Runs : \E k \in 1..Len(runs[r].colors) : ExtractionSettles(r, k, FALSE)
    \/ \E r \in Runs : ColorsSettled(r)

SpecRace == Init /\ [][SpecRaceNext]_vars

\* no preview generation is suspended
PreviewsSettled == Len(previews) = 0

\* the colour dots clicked in the gallery: one that keeps every card, one that keeps
\* one card and one that keeps none
GalleryColors == {"all", "black", "blue"}

\* the gallery of the first category: cards are selected and exported together while
\* the colour filter changes; a preview is generated before the next event
SpecSelectNext ==
    \/ PreviewsSettled /\ \E id \in GalleryColors : SetSelectedColor(id)
    \/ PreviewsSettled /\ \E r \in Runs : CatalogLoaded(r, CatalogSheet)
    \/ PreviewsSettled /\ \E r \in Runs :
            DetailsLoaded(r, AnswersInOrder(IdsIn(runs[r].fromDb)))
    \/ PreviewsSettled /\ \E r \in Runs : \E k \in 1..Len(runs[r].colors) :
            ExtractionSettles(r, k, FALSE)
    \/ PreviewsSettled /\ \E r \in Runs : ColorsSettled(r)
    \/ PreviewsSettled /\ \E appId \in ImgRefs : ToggleSelect(appId)
    \/ PreviewsSettled /\ SelectAll
    \/ PreviewsSettled /\ Escape
    \/ PreviewsSettled /\ ClearSelection
    \/ \E p \in 1..Len(previews) : PreviewReady(p)
    \/ \E p \in 1..Len(previews) : PreviewFails(p)
    \/ PreviewsSettled /\ \E clipboardSupport \in BOOLEAN : CopySelected(clipboardSupport)
    \/ PreviewsSettled /\ CanvasReady
    \/ PreviewsSettled /\ CanvasFails
    \/ PreviewsSettled /\ BlobReady
    \/ PreviewsSettled /\ BlobFails
    \/ PreviewsSettled /\ ClipboardWritten
    \/ PreviewsSettled /\ ClipboardRejects
    \/ PreviewsSettled /\ MessageExpires

SpecSelect == Init /\ [][SpecSelectNext]_vars

\* the exports of the first category: every card is selected, the cards are exported
\* together and one by one; every image, bitmap and clipboard outcome happens
SpecExportNext ==
    \/ PreviewsSettled /\ \E r \in Runs : CatalogLoaded(r, CatalogSheet)
    \/ PreviewsSettled /\ \E r \in Runs :
            DetailsLoaded(r, AnswersInOrder(IdsIn(runs[r].fromDb)))
    \/ PreviewsSettled /\ \E r \in Runs : \E k \in 1..Len(runs[r].colors) :
            ExtractionSettles(r, k, FALSE)
    \/ PreviewsSettled /\ \E r \in Runs : ColorsSettled(r)
    \/ PreviewsSettled /\ SelectAll
    \/ PreviewsSettled /\ Escape
    \/ \E p \in 1..Len(previews) : PreviewReady(p)
    \/ PreviewsSettled /\ \E clipboardSupport \in BOOLEAN : CopySelected(clipboardSupport)
    \/ PreviewsSettled /\ CanvasReady
    \/ PreviewsSettled /\ CanvasFails
    \/ PreviewsSettled /\ BlobReady
    \/ PreviewsSettled /\ BlobFails
    \/ PreviewsSettled /\ ClipboardWritten
    \/ PreviewsSettled /\ ClipboardRejects
    \/ PreviewsSettled /\ MessageExpires
    \/ PreviewsSettled /\ \E appId \in ImgRefs : \E img \in ImageStates :
            \E clipboardSupport \in BOOLEAN : CopyLogo(appId, img, clipboardSupport)
    \/ PreviewsSettled /\ ImageLoads
    \/ PreviewsSettled /\ ImageErrors
    \/ PreviewsSettled /\ SingleBlobReady
    \/ PreviewsSettled /\ SingleBlobFails
    \/ PreviewsSettled /\ SingleClipboardWritten
    \/ PreviewsSettled /\ SingleClipboardRejects
    \/ PreviewsSettled /\ \E appId \in DOMAIN copyStatus : StatusExpires(appId)

SpecExport == Init /\ [][SpecExportNext]_vars

\* the cards a suspended preview generation waits for
Awaited ==
    UNION {{previews[p][k] : k \in 1..Len(previews[p])} : p \in 1..Len(previews)}

\* an img element has one onload handler: a generation that set it for a card another
\* generation waits for would leave that one suspended for ever, and is not started
NoHandlerTakenOver ==
    Len(previews') > Len(previews) =>
        \A k \in 1..Len(previews'[Len(previews')]) :
            previews'[Len(previews')][k] \notin Awaited

\* the preview of the gallery of the first category: cards are selected and the
\* selection is cleared while preview generations wait for their images to load;
\* every generation succeeds
SpecPreviewNext ==
    \/ \E r \in Runs : CatalogLoaded(r, CatalogSheet)
    \/ \E r \in Runs : DetailsLoaded(r, AnswersInOrder(IdsIn(runs[r].fromDb)))
    \/ \E r \in Runs : \E k \in 1..Len(runs[r].colors) : \E rejects \in BOOLEAN :
            ExtractionSettles(r, k, rejects)
    \/ \E r \in Runs : ColorsSettled(r)
    \/ (\E appId \in ImgRefs : ToggleSelect(appId)) /\ NoHandlerTakenOver
    \/ SelectAll /\ NoHandlerTakenOver
    \/ Escape
    \/ ClearSelection
    \/ \E p \in 1..Len(previews) : PreviewReady(p)

SpecPreview == Init /\ [][SpecPreviewNext]_vars

\* COLORS.map(c => c.id): the dots of the colour filter bar
ColorIds == {COLORS[k].id : k \in 1..Len(COLORS)}

\* the colour filter bar: the tabs are loaded one call at a time, every extraction
\* resolving or rejecting, and any of the colour dots is clicked at any moment
SpecFilterNext ==
    \/ \E id \in ColorIds : SetSelectedColor(id)
    \/ (\E category \in Categories : SelectCategory(category)) /\ Len(runs') <= MaxRuns
    \/ \E r \in Runs : CatalogLoaded(r, CatalogSheet)
    \/ \E r \in Runs : DetailsLoaded(r, AnswersInOrder(IdsIn(runs[r].fromDb)))
    \/ \E r \in Runs : \E k \in 1..Len(runs[r].colors) : \E rejects \in BOOLEAN :
            ExtractionSettles(r, k, rejects)
    \/ \E r \in Runs : ColorsSettled(r)

SpecFilter == Init /\ [][SpecFilterNext]_vars

SpecDominantInit ==
    DcInit /\ HueIdle /\ GcIdle /\ ColorIdle /\ ShIdle /\ AdIdle /\ AppIdle /\ CsIdle /\ GalleryIdle

SpecDominantNext == DcLoad \/ DcReject

SpecDominant == SpecDominantInit /\ [][SpecDominantNext]_vars

(***************************************************************************)
(* Specifications                                                          *)
(***************************************************************************)
SpecHueInit == HueInit /\ GcIdle /\ ColorIdle /\ ShIdle /\ AdIdle /\ AppIdle /\ CsIdle /\ DcIdle /\ GalleryIdle

SpecHueNext == HueDistanceCall

SpecHue == SpecHueInit /\ [][SpecHueNext]_vars

SpecGridInit == GcInit /\ HueIdle /\ ColorIdle /\ ShIdle /\ AdIdle /\ AppIdle /\ CsIdle /\ DcIdle /\ GalleryIdle

SpecGridNext == GcAllReady \/ GcImageError \/ GcDraw \/ GcReturn

SpecGrid == SpecGridInit /\ [][SpecGridNext]_vars

SpecColorInit == ColorInit /\ HueIdle /\ GcIdle /\ ShIdle /\ AdIdle /\ AppIdle /\ CsIdle /\ DcIdle /\ GalleryIdle

SpecColorNext == GetClosestColorIdCall

SpecColor == SpecColorInit /\ [][SpecColorNext]_vars

SpecSheetInit == ShInit /\ HueIdle /\ GcIdle /\ ColorIdle /\ AdIdle /\ AppIdle /\ CsIdle /\ DcIdle /\ GalleryIdle

SpecSheetNext == ShFetchFails \/ ShLoad

SpecSheet == SpecSheetInit /\ [][SpecSheetNext]_vars

SpecDetailsInit == AdInit /\ HueIdle /\ GcIdle /\ ColorIdle /\ ShIdle /\ AppIdle /\ CsIdle /\ DcIdle /\ GalleryIdle

SpecDetailsNext ==
    \/ AdPushBatch
    \/ AdIssueRequests
    \/ \E k \in 1..Len(adResponses) : AdResponse(k)
    \/ \E k \in 1..Len(adResponses) : AdReject(k)
    \/ AdReturn

SpecDetails == SpecDetailsInit /\ [][SpecDetailsNext]_vars

SpecCatalogInit ==
    CsInit /\ HueIdle /\ GcIdle /\ ColorIdle /\ ShIdle /\ AdIdle /\ AppIdle /\ GalleryIdle
    /\ DcIdle

SpecCatalogNext == CsLoaded \/ CsFails

SpecCatalog == SpecCatalogInit /\ [][SpecCatalogNext]_vars

(***************************************************************************)
(* C7: for all hues a, b in 0..360, hueDistance(a, b) is                   *)
(* min(|a-b|, 360-|a-b|); it is symmetric, lies in 0..180, is 0 for equal  *)
(* hues and 20 for the hues 10 and 350.                                    *)
(***************************************************************************)
C7_HueDistanceCircular ==
    hueD # -1 =>
        /\ hueD = Min2(Abs(hueA - hueB), 360 - Abs(hueA - hueB))
        /\ hueD = HueDistance(hueB, hueA)
        /\ hueD \in 0..180
        /\ (hueA = hueB => hueD = 0)
        /\ (hueA = 10 /\ hueB = 350 => hueD = 20)

C7_Witness == hueA = 10 /\ hueB = 350 /\ hueD = 20

(***************************************************************************)
(* C8: N >= 1 images are laid on ceil(sqrt(N)) columns and ceil(N/columns) *)
(* rows, image i in column i mod columns and row floor(i/columns); 1 image *)
(* gives 1x1, 4 give 2x2, 5 give 3 columns by 2 rows; every image has its  *)
(* own cell inside the grid (and inside the canvas), no row is empty.      *)
(***************************************************************************)
C8_GridLayout ==
    gcPc \in {"draw", "done"} =>
        LET n == Len(gcImages)
            cell == gcOptions.cellSize
        IN  /\ gcCols * gcCols >= n /\ (gcCols - 1) * (gcCols - 1) < n
            /\ gcRows * gcCols >= n /\ (gcRows - 1) * gcCols < n
            /\ (n = 1 => gcCols = 1 /\ gcRows = 1)
            /\ (n = 4 => gcCols = 2 /\ gcRows = 2)
            /\ (n = 5 => gcCols = 3 /\ gcRows = 2)
            /\ \A k \in 1..Len(gcTiles) :
                 LET t == gcTiles[k]
                 IN  /\ t.col = (k - 1) % gcCols
                     /\ t.row = (k - 1) \div gcCols
                     /\ t.col \in 0..(gcCols - 1) /\ t.row \in 0..(gcRows - 1)
                     /\ t.tileX >= 0 /\ t.tileX + cell <= gcWidth
                     /\ t.tileY >= 0 /\ t.tileY + cell <= gcHeight
                     /\ t.dx >= t.tileX /\ t.dx + t.drawW <= t.tileX + cell
                     /\ t.dy >= t.tileY /\ t.dy + t.drawH <= t.tileY + cell
                     /\ \A j \in 1..Len(gcTiles) :
                          j # k => <<gcTiles[j].col, gcTiles[j].row>> # <<t.col, t.row>>
            /\ (gcPc = "done" =>
                  \A r \in 0..(gcRows - 1) : \E k \in 1..Len(gcTiles) : gcTiles[k].row = r)

C8_Witness ==
    /\ gcPc = "done" /\ Len(gcImages) = 5 /\ Len(gcTiles) = 5
    /\ gcCols = 3 /\ gcRows = 2
    /\ gcTiles[5].col = 1 /\ gcTiles[5].row = 1

(***************************************************************************)
(* C1: a row is in the catalog loadAppsFromSheet returns if and only if,   *)
(* after coercion, its name is non-empty, its app_store_id is non-empty    *)
(* and its id is finite and strictly positive; a row whose id cell is      *)
(* null, 0 or negative is never loaded.                                    *)
(***************************************************************************)
C1_LoadedIffValidPositiveId ==
    shPc = "returned" =>
        shApps = SelectSeq(shMapped,
                           LAMBDA a : a.name # "" /\ a.app_store_id # ""
                                      /\ IsFinite(a.id) /\ a.id.v > 0)

(***************************************************************************)
(* C3: for N identifiers getAppDetails issues exactly ceil(N/10) lookup    *)
(* requests (none for N = 0), each carrying a contiguous slice of at most  *)
(* 10 identifiers, the slices covering the input once and in order; the    *)
(* list returned is the per-batch result lists concatenated in batch       *)
(* order, so its length is the sum of the per-batch result counts.         *)
(***************************************************************************)
\* the number of results of the first k answers
RECURSIVE ResultsBefore(_, _)
ResultsBefore(responses, k) ==
    IF k = 0 THEN 0
    ELSE ResultsBefore(responses, k - 1)
            + (IF responses[k].hasResults THEN Len(responses[k].results) ELSE 0)

C3_BatchedLookup ==
    LET n == Len(adIds)
        nb == Len(adRequests)
    IN  /\ (adPc \in {"loop", "idle"} => nb = 0)
        /\ (adPc \in {"await", "returned", "thrown"} =>
              /\ nb * 10 >= n /\ (nb = 0 \/ (nb - 1) * 10 < n)
              /\ (n = 0 => nb = 0)
              /\ \A k \in 1..nb :
                    /\ Len(adBatches[k]) \in 1..10
                    /\ adRequests[k] = JoinComma(adBatches[k])
                    /\ \A j \in 1..Len(adBatches[k]) :
                          adBatches[k][j] = adIds[(k - 1) * 10 + j]
              /\ \A p \in 1..n : \E k \in 1..nb :
                    p - (k - 1) * 10 \in 1..Len(adBatches[k]))
        /\ (adPc = "returned" =>
              /\ Len(adResult) = ResultsBefore(adResponses, nb)
              /\ \A k \in 1..nb :
                    adResponses[k].hasResults =>
                        \A j \in 1..Len(adResponses[k].results) :
                            adResult[ResultsBefore(adResponses, k - 1) + j]
                                = adResponses[k].results[j])

\* 21 identifiers: three requests of 10, 10 and 1, answered in different shapes
C3_Witness ==
    /\ adPc = "returned" /\ Len(adIds) = 21 /\ Len(adRequests) = 3
    /\ adRequests[3] = "121"
    /\ Len(adResponses[1].results) = 9 /\ ~adResponses[2].hasResults
    /\ Len(adResult) = 10 /\ adResult[10].trackId = 121

(***************************************************************************)
(* C5: getClosestColorId is total: every input string gets one of the nine *)
(* buckets red..white and never 'all'; a string that is no 6-hex-digit     *)
(* colour gets black; a colour of saturation below 0.12 gets white when    *)
(* its lightness is above 0.8 and black otherwise, never a hue bucket.     *)
(***************************************************************************)
Buckets == {"red", "orange", "yellow", "green", "blue", "purple", "pink", "black", "white"}

\* the channels of a well-formed colour input, read independently of HexToHsl
IsHexColor(str) ==
    LET body == IF Len(str) = 7 /\ CharAt(str, 1) = "#" THEN SubSeq(str, 2, 7) ELSE str
    IN  Len(body) = 6 /\ \A k \in 1..6 : HexValue(CharAt(body, k)) \in 0..15

C5_ClassifierTotal ==
    colorId # "" =>
        /\ colorId \in Buckets
        /\ (~IsHexColor(colorInput) => colorId = "black")
        /\ (IsHexColor(colorInput) =>
              LET hsl == HexToHsl(colorInput)
              IN  100 * hsl.s.n < 12 * hsl.s.d =>
                      colorId = (IF 10 * hsl.l.n > 8 * hsl.l.d THEN "white" ELSE "black"))

\* a near-neutral colour that is no grey: #e6e1e1 is white
C5_Witness == colorInput = "#e6e1e1" /\ colorId = "white"

(***************************************************************************)
(* C6: a colour of saturation at least 0.12 gets the non-neutral palette   *)
(* bucket whose hue is nearest on the hue circle, the earliest declared    *)
(* bucket winning a tie; #1a1a1a is black, #fefefe white, #ff4500 red.     *)
(***************************************************************************)
\* min(|a - b|, 360 - |a - b|) of two hues, in units of 1/(a.d * b.d) degree
CircularGap(a, b) ==
    LET diff == Abs(a.n * b.d - b.n * a.d)
    IN  Frac(Min2(diff, 360 * a.d * b.d - diff), a.d * b.d)

C6_NearestHue ==
    colorId # "" =>
        /\ (colorInput = "#1a1a1a" => colorId = "black")
        /\ (colorInput = "#fefefe" => colorId = "white")
        /\ (colorInput = "#ff4500" => colorId = "red")
        /\ (IsHexColor(colorInput) =>
              LET hsl == HexToHsl(colorInput)
                  gap(k) == CircularGap(hsl.h, HexToHsl(COLORS[k].value).h)
                  chroma == {k \in 1..Len(COLORS) : COLORS[k].id \notin {"all", "white", "black"}}
              IN  100 * hsl.s.n >= 12 * hsl.s.d =>
                      \E k \in chroma :
                          /\ colorId = COLORS[k].id
                          /\ \A j \in chroma : ~FracLess(gap(j), gap(k))
                          /\ \A j \in chroma : j < k => FracLess(gap(k), gap(j)))

\* cyan is as far from green as from blue: green, declared first, wins
C6_Witness == colorInput = "#00ffff" /\ colorId = "green"

(***************************************************************************)
(* C2: the search history never holds more than 5 terms and never the same *)
(* term twice; after any non-blank search, whether it later succeeds or    *)
(* fails, the term searched last is at index 0; searching a term the       *)
(* history already holds moves it to the front, the other terms keeping    *)
(* their order and the list its length; no other step changes the history. *)
(***************************************************************************)
\* the step is a searchApps call that passes the blank check and suspends
SearchStarted == Len(runs') = Len(runs) + 1 /\ runs'[Len(runs')].kind = "search"

C2_SearchHistory ==
    /\ [](/\ Len(searchHistory) <= 5
          /\ \A i, j \in 1..Len(searchHistory) :
                i # j => searchHistory[i] # searchHistory[j]
          /\ IF lastSearchValue = "" THEN searchHistory = <<>>
             ELSE lastSearchValue # " " /\ searchHistory[1] = lastSearchValue)
    /\ [][IF SearchStarted
          THEN /\ lastSearchValue' = runs'[Len(runs')].arg
               /\ searchHistory'[1] = runs'[Len(runs')].arg
               /\ InList(searchHistory, runs'[Len(runs')].arg) =>
                     /\ Len(searchHistory') = Len(searchHistory)
                     /\ Tail(searchHistory')
                           = SelectSeq(searchHistory,
                                       LAMBDA t : t # runs'[Len(runs')].arg)
          ELSE searchHistory' = searchHistory /\ lastSearchValue' = lastSearchValue]_vars

\* the search of "ze" has completed and shows Zeta; five later searches, failed at the
\* catalog, have pushed "ze" out of the history, and the last of them was a term
\* searched before
C2_Witness ==
    /\ Len(searchHistory) = 5
    /\ ~InList(searchHistory, "ze")
    /\ Len(apps) = 1 /\ apps[1].trackName = "Zeta" /\ hasSearched
    /\ searchHistory = <<"q1", "q5", "q4", "q3", "q2">>
    /\ lastSearchValue = "q1"
    /\ runs = <<>>

(***************************************************************************)
(* C4: a store record is given the name of the catalog record whose        *)
(* app_store_id equals String(trackId), and keeps the store's trackName    *)
(* when the catalog list has no such record; the catalog record at the     *)
(* same position plays no part, so the names are the same in whatever      *)
(* order the catalog list and the store results are put.                   *)
(***************************************************************************)
NamesByTrack(list) == {<<list[k].trackId, list[k].trackName>> : k \in 1..Len(list)}

Reordered(list) ==
    {[k \in 1..Len(list) |-> list[p[k]]] : p \in Permutations(1..Len(list))}

\* the names the claim allows for a store record
JoinedNames(fromDb, app) ==
    LET keyed == {j \in 1..Len(fromDb) :
                     fromDb[j].app_store_id = IdStrings[app.trackId]}
    IN  IF keyed = {} THEN {app.trackName} ELSE {fromDb[j].name : j \in keyed}

C4_JoinByKey ==
    \A r \in Runs :
        runs[r].pc = "colors" =>
            /\ Len(runs[r].allApps) = Len(runs[r].appDetails)
            /\ \A k \in 1..Len(runs[r].appDetails) :
                  \E e \in NamesByTrack(runs[r].allApps) :
                      /\ e[1] = runs[r].appDetails[k].trackId
                      /\ e[2] \in JoinedNames(runs[r].fromDb, runs[r].appDetails[k])
            /\ \A e \in NamesByTrack(runs[r].allApps) :
                  \E k \in 1..Len(runs[r].appDetails) :
                      /\ e[1] = runs[r].appDetails[k].trackId
                      /\ e[2] \in JoinedNames(runs[r].fromDb, runs[r].appDetails[k])
            /\ \A c \in Reordered(runs[r].fromDb) :
                  \A q \in Reordered(runs[r].appDetails) :
                      NamesByTrack(JoinNames(c, q)) = NamesByTrack(runs[r].allApps)

\* the list shows the game, named by the store because its key "0333" is not "333";
\* the applications are being loaded and the store has answered them in the opposite
\* order, Zeta (111) first, against the catalog list Alpha (222), Zeta (111)
C4_Witness ==
    /\ Len(apps) = 1 /\ apps[1].trackId = 333 /\ apps[1].trackName = "Store 0333"
    /\ Len(runs) = 1 /\ runs[1].pc = "colors" /\ runs[1].kind = "load"
    /\ Len(runs[1].fromDb) = 2 /\ Len(runs[1].appDetails) = 2
    /\ runs[1].fromDb[1].name = "Alpha" /\ runs[1].fromDb[1].app_store_id = "222"
    /\ runs[1].appDetails[1].trackId = 111 /\ runs[1].appDetails[2].trackId = 222
    /\ runs[1].allApps[1].trackId = 222 /\ runs[1].allApps[1].trackName = "Alpha"
    /\ runs[1].allApps[2].trackId = 111 /\ runs[1].allApps[2].trackName = "Zeta"

(***************************************************************************)
(* C9: in every state the displayed list is in ascending order of display  *)
(* name, whatever the colour filter and whatever order the catalog rows    *)
(* and the store results came in; the catalog Zeta (111), Alpha (222) is   *)
(* displayed as Alpha, Zeta.                                               *)
(***************************************************************************)
\* the names of the model in ascending order
AscendingNames == <<"Alpha", "Beta", "Store 0333", "Store 111", "Store 222", "Zeta">>

RankOf(name) == CHOOSE k \in 1..Len(AscendingNames) : AscendingNames[k] = name

C9_DisplayedAscending ==
    /\ \A i, j \in 1..Len(DisplayedApps) :
          i < j => RankOf(DisplayedApps[i].trackName) <= RankOf(DisplayedApps[j].trackName)
    /\ (selectedColor = "all" /\ {apps[k].trackId : k \in 1..Len(apps)} = {111, 222}) =>
          /\ Len(DisplayedApps) = 2
          /\ DisplayedApps[1].trackName = "Alpha"
          /\ DisplayedApps[2].trackName = "Zeta"

\* Alpha and Zeta are loaded, the colour of Zeta's icon could not be read, and the
\* black filter shows both
C9_Witness ==
    /\ selectedColor = "black"
    /\ Len(apps) = 2 /\ apps[2].trackId = 111 /\ apps[2].dominantColor = fallbackColor
    /\ Len(DisplayedApps) = 2
    /\ DisplayedApps[1].trackName = "Alpha" /\ DisplayedApps[2].trackName = "Zeta"

(***************************************************************************)
(* C10: a direct searchApps call (Enter, the search icon) whose search     *)
(* term is empty or only white space leaves searchHistory, apps,           *)
(* isLoading and hasSearched as they are and suspends no call, so that no  *)
(* catalog or store request is issued.                                     *)
(***************************************************************************)
C10_BlankSearchNoEffect ==
    [][(lastCall' = "searchApps()" /\ Trim(searchTerm) = "") =>
            UNCHANGED <<searchHistory, apps, isLoading, hasSearched, runs>>]_vars

\* a search of only white space submitted while an earlier search is in flight
C10_Witness ==
    /\ lastCall = "searchApps()" /\ searchTerm = " "
    /\ isLoading /\ Len(runs) = 1 /\ runs[1].kind = "search"
    /\ searchHistory # <<>> /\ hasSearched /\ apps # <<>>

(***************************************************************************)
(* C11: the search searchApps issues, searchAppsByCategory with the        *)
(* categories app and game, returns every catalog record whose name        *)
(* contains the trimmed search term without regard to case, whatever the   *)
(* category of the record is, a record without a category included.        *)
(***************************************************************************)
\* the catalog records whose name contains the trimmed term, case-insensitively
NameMatches(payload, term) ==
    SelectSeq(LoadAppsFromSheet(payload),
              LAMBDA a : Includes(ToLowerCase(a.name), ToLowerCase(Trim(term))))

C11_SearchEveryCategory ==
    (csPc = "returned" /\ csCategories = searchCategories) =>
        {csResult[k].name : k \in 1..Len(csResult)} =
            {NameMatches(csPayload, csTerm)[k].name :
                k \in 1..Len(NameMatches(csPayload, csTerm))}

\* the search for "ze" has returned nothing although Zeta, a record without a
\* category, is in the catalog
C11_Reached ==
    /\ csPc = "returned" /\ csCategories = searchCategories /\ csTerm = "ze"
    /\ csPayload.rows[1].c[4] = Null
    /\ csResult = <<>>

(***************************************************************************)
(* C12: colour extraction failures are isolated per item.  Whatever subset *)
(* of the extractions of a run rejects, the run completes and writes a     *)
(* list with one entry per enriched record, in the same order, in which    *)
(* exactly the records whose extraction rejected carry the fallback colour *)
(* #666666 and every other record carries the colour extracted from its    *)
(* icon.                                                                   *)
(***************************************************************************)
\* the suspended calls once call r has ended
RunsWithout(r) == [k \in 1..(Len(runs) - 1) |-> IF k < r THEN runs[k] ELSE runs[k + 1]]

C12_ExtractionFailuresIsolated ==
    /\ [](\A r \in Runs :
            (runs[r].pc = "colors"
                /\ \A k \in 1..Len(runs[r].colors) : runs[r].colors[k] # pendingColor)
            => ENABLED ColorsSettled(r))
    /\ [][\A r \in Runs :
            (runs[r].pc = "colors" /\ runs' = RunsWithout(r)) =>
                /\ Len(apps') = Len(runs[r].allApps)
                /\ \A k \in 1..Len(runs[r].allApps) :
                      /\ apps'[k].trackId = runs[r].allApps[k].trackId
                      /\ apps'[k].trackName = runs[r].allApps[k].trackName
                      /\ apps'[k].dominantColor =
                            IF runs[r].colors[k] = rejectedColor THEN fallbackColor
                            ELSE DominantColorOf(runs[r].allApps[k].artworkUrl100)]_vars

\* the run has written Alpha with the colour of its icon and Zeta, whose extraction
\* rejected, with the fallback colour
C12_Witness ==
    /\ runs = <<>> /\ ~isLoading
    /\ Len(apps) = 2
    /\ apps[1].trackName = "Alpha" /\ apps[1].dominantColor = "#1a1a1a"
    /\ apps[2].trackName = "Zeta" /\ apps[2].dominantColor = fallbackColor

C14_CatalogFailureShowsEmpty ==
    [][\A r \in Runs :
        (runs[r].pc = "catalog" /\ runs' = RunsWithout(r)) => Len(DisplayedApps') = 0]_vars

\* the game tab was clicked while Alpha and Zeta were displayed; the catalog fetch
\* failed, the count still is the one of the application tab, and Alpha and Zeta are
\* still displayed
C14_Reached ==
    /\ selectedCategory = "game" /\ totalAppCount = 2
    /\ runs = <<>> /\ ~isLoading
    /\ Len(DisplayedApps) = 2

(***************************************************************************)
(* C20: within one run the steps are strictly ordered.  A run waiting for  *)
(* the catalog has no catalog records, no store results and no colour      *)
(* extraction; a run waiting for the store lookup has its catalog records  *)
(* and no store result and no colour extraction; the extractions exist     *)
(* only once the lookup has answered, one per enriched record.  A run only *)
(* moves from the catalog to the lookup and from the lookup to the         *)
(* extractions, and a non-empty list is written only by a run all of whose *)
(* extractions have settled.                                               *)
(***************************************************************************)
C20_StepsOrdered ==
    /\ [](\A r \in Runs :
            /\ runs[r].pc \in {"catalog", "details", "colors"}
            /\ runs[r].pc = "catalog" =>
                  /\ runs[r].fromDb = <<>> /\ runs[r].appDetails = <<>>
                  /\ runs[r].allApps = <<>> /\ runs[r].colors = <<>>
            /\ runs[r].pc = "details" =>
                  /\ runs[r].appDetails = <<>> /\ runs[r].allApps = <<>>
                  /\ runs[r].colors = <<>>
            /\ runs[r].pc = "colors" =>
                  /\ Len(runs[r].allApps) = Len(runs[r].appDetails)
                  /\ Len(runs[r].colors) = Len(runs[r].allApps))
    /\ [][\A r \in Runs :
            (Len(runs') = Len(runs) /\ runs'[r].pc # runs[r].pc) =>
                <<runs[r].pc, runs'[r].pc>> \in
                    {<<"catalog", "details">>, <<"details", "colors">>}]_vars
    /\ [][(apps' # apps /\ apps' # <<>>) =>
            \E r \in Runs :
                /\ runs[r].pc = "colors" /\ runs' = RunsWithout(r)
                /\ \A k \in 1..Len(runs[r].colors) : runs[r].colors[k] # pendingColor
                /\ Len(apps') = Len(runs[r].colors)]_vars

\* the first load has the store's two records; the colour of Alpha is extracted, the
\* extraction for Zeta has not settled, and no list is written yet
C20_Witness ==
    /\ Len(runs) = 1 /\ runs[1].pc = "colors"
    /\ Len(runs[1].fromDb) = 2 /\ Len(runs[1].appDetails) = 2
    /\ runs[1].colors = <<"#1a1a1a", pendingColor>>
    /\ apps = <<>> /\ isLoading

(***************************************************************************)
(* C18: in every state in which a loadAppsByCategory or searchApps call    *)
(* has started and not finished, isLoading is true, also when a second     *)
(* call was started before the first one finished.                         *)
(***************************************************************************)
C18_LoadingWhileInFlight == Len(runs) > 0 => isLoading

\* the game tab was clicked during the first load; the first load has finished and
\* reset isLoading while the load of the games waits for the store
C18_Reached ==
    /\ Len(runs) = 1 /\ runs[1].kind = "load" /\ runs[1].arg = "game"
    /\ runs[1].pc = "details"
    /\ ~isLoading

(***************************************************************************)
(* C19: a call started later does not cancel the calls in flight, and the  *)
(* last write to the list wins.  The step that starts a call leaves every  *)
(* earlier call suspended where it was; a call whose extractions have      *)
(* settled can write, and writes its own list, whatever calls started      *)
(* after it.  So a call started for the previous category can finish after *)
(* the call started for the current one and overwrite its result.          *)
(***************************************************************************)
C19_LastWriteWins ==
    /\ [][(selectedCategory' # selectedCategory \/ Len(runs') > Len(runs)) =>
            (Len(runs') = Len(runs) + 1 /\ SubSeq(runs', 1, Len(runs)) = runs)]_vars
    /\ [][\/ \E r \in Runs : runs' = RunsWithout(r)
          \/ /\ Len(runs') >= Len(runs)
             /\ \A r \in Runs : /\ runs'[r].kind = runs[r].kind
                                 /\ runs'[r].arg = runs[r].arg]_vars
    /\ [](\A r \in Runs :
            (runs[r].pc = "colors"
                /\ \A k \in 1..Len(runs[r].colors) : runs[r].colors[k] # pendingColor)
            => ENABLED (ColorsSettled(r)
                        /\ apps' = AppsWithColors(runs[r].allApps, runs[r].colors)))
    /\ [][\A r \in Runs :
            (runs[r].pc = "colors" /\ runs' = RunsWithout(r)) =>
                apps' = AppsWithColors(runs[r].allApps, runs[r].colors)]_vars

\* the game tab is selected and its load, started second, has finished and written
\* the game; the load of the applications, started first, is still in flight with
\* every colour settled, and writes Alpha and Zeta next
C19_Witness ==
    /\ selectedCategory = "game" /\ ~hasSearched /\ ~isLoading
    /\ Len(apps) = 1 /\ apps[1].trackId = 333
    /\ Len(runs) = 1 /\ runs[1].kind = "load" /\ runs[1].arg = "app"
    /\ runs[1].pc = "colors"
    /\ Len(runs[1].colors) = 2
    /\ \A k \in 1..2 : runs[1].colors[k] # pendingColor

(***************************************************************************)
(* C15: the selection is empty immediately after an Escape key press and   *)
(* immediately after the step in which a combined export succeeds, by the  *)
(* clipboard write or by the download, whatever it contained before and    *)
(* whatever was selected while the export was in flight.                   *)
(***************************************************************************)
\* the step ends a copySelected call with the image delivered
CombinedDelivered ==
    /\ combined.pc \in {"blob", "clipboard"}
    /\ combined'.pc = "idle"
    /\ \/ lastCall' = writeResolved
       \/ \E n \in DOMAIN CombinedFileNames : lastCall' = CombinedFileNames[n]

C15_SelectionEmptied ==
    /\ [][lastCall' = escapeKey => selectedIds' = <<>>]_vars
    /\ [][CombinedDelivered =>
            (selectedIds' = <<>>
                /\ globalMessage' \in {copiedCombined, downloadedCombined})]_vars
    /\ []((lastCall = escapeKey
            \/ (lastCall = writeResolved /\ globalMessage = copiedCombined)
            \/ \E n \in DOMAIN CombinedFileNames : lastCall = CombinedFileNames[n])
          => selectedIds = <<>>)

\* two cards were selected when Copy combined was clicked; the clipboard write was
\* rejected, the file app-logos-2.png downloaded, and the selection is empty
C15_Witness ==
    /\ lastCall = CombinedFileNames[2]
    /\ globalMessage = downloadedCombined
    /\ selectedIds = <<>> /\ previewDataUrl = <<>>
    /\ combined = NoCombined /\ ~isGenerating

(***************************************************************************)
(* C16: no state has a non-empty selection together with an empty          *)
(* displayed list: the selection is cleared whenever the displayed list    *)
(* becomes empty, by a load or search without apps or by a colour filter   *)
(* that matches none.                                                      *)
(***************************************************************************)
C16_NoSelectionOnEmptyList == ~(Len(selectedIds) > 0 /\ Len(DisplayedApps) = 0)

\* Alpha and Zeta are loaded and both selected; the blue dot was clicked, no card is
\* displayed, and both are still selected
C16_Reached ==
    /\ ~isLoading /\ Len(apps) = 2
    /\ selectedColor = "blue" /\ Len(DisplayedApps) = 0
    /\ selectedIds = <<"222", "111">>

(***************************************************************************)
(* C17: delivery of an export, single or combined.  With clipboard-image   *)
(* support the clipboard write is attempted before any download; a file is *)
(* downloaded only in a step taken without that support or in the step in  *)
(* which the write is rejected.  The mode reported is copied exactly when  *)
(* the step is the write resolving and downloaded exactly when the step    *)
(* downloads the file, and the step in which the write is rejected never   *)
(* reports a failure.                                                      *)
(***************************************************************************)
\* the step downloads the combined image, the single image
DownloadsCombined == \E n \in DOMAIN CombinedFileNames : lastCall' = CombinedFileNames[n]

DownloadsSingle == lastCall' = singleFileName

C17_ClipboardFirst ==
    /\ [][DownloadsCombined =>
            /\ lastCall' = CombinedFileNames[Len(combined.ids)]
            /\ \/ combined.pc = "blob" /\ ~combined.clipboard
               \/ combined.pc = "clipboard" /\ combined.clipboard]_vars
    /\ [][DownloadsSingle =>
            \/ single.pc = "blob" /\ ~single.clipboard
            \/ single.pc = "clipboard" /\ single.clipboard]_vars
    /\ [][(combined.pc = "blob" /\ combined.clipboard /\ combined' # combined) =>
            /\ ~DownloadsCombined
            /\ \/ combined'.pc = "clipboard" /\ globalMessage' = globalMessage
               \/ combined' = NoCombined /\ globalMessage' = failedToCopy]_vars
    /\ [][(single.pc = "blob" /\ single.clipboard /\ single' # single) =>
            /\ ~DownloadsSingle
            /\ \/ single'.pc = "clipboard" /\ copyStatus' = copyStatus
               \/ single' = NoSingle /\ copyStatus'[single.appId] = failedToCopy]_vars
    /\ [][(combined.pc # "idle" /\ combined' = NoCombined) =>
            /\ globalMessage' = copiedCombined <=>
                  (combined.pc = "clipboard" /\ lastCall' = writeResolved)
            /\ globalMessage' = downloadedCombined <=> DownloadsCombined
            /\ globalMessage' \in {copiedCombined, downloadedCombined, failedToCopy}]_vars
    /\ [][(single.pc # "idle" /\ single' = NoSingle) =>
            /\ copyStatus'[single.appId] = copiedStatus <=>
                  (single.pc = "clipboard" /\ lastCall' = writeResolved)
            /\ copyStatus'[single.appId] = downloadedStatus <=> DownloadsSingle
            /\ copyStatus'[single.appId] \in
                  {copiedStatus, downloadedStatus, failedToCopy}]_vars
    /\ [][(combined.pc = "clipboard" /\ combined' # combined) =>
            globalMessage' \in {copiedCombined, downloadedCombined}]_vars
    /\ [][(single.pc = "clipboard" /\ single' # single) =>
            copyStatus'[single.appId] \in {copiedStatus, downloadedStatus}]_vars

\* the logo of Alpha was downloaded; the copy of the logo of Zeta and the combined
\* copy of both cards each wait for their clipboard write
C17_Witness ==
    /\ "222" \in DOMAIN copyStatus /\ copyStatus["222"] = downloadedStatus
    /\ single.pc = "clipboard" /\ single.appId = "111" /\ single.clipboard
    /\ combined.pc = "clipboard" /\ combined.clipboard /\ Len(combined.ids) = 2
    /\ isGenerating

(***************************************************************************)
(* C21: the parallel colour extraction keeps the indices.  While a call    *)
(* waits for its extractions, any callback that has not settled may settle *)
(* next, resolved or rejected, and a settling callback fills its own entry *)
(* only, with the colour of its own icon.  The list then written has the   *)
(* records of the input in the input order, entry i being input record i   *)
(* with the colour of the icon of record i, or the fallback colour.        *)
(***************************************************************************)
\* the record without its colour
Uncoloured(app) ==
    [trackId |-> app.trackId, trackName |-> app.trackName,
     artworkUrl100 |-> app.artworkUrl100]

C21_IndexPreserving ==
    /\ [](\A r \in Runs : runs[r].pc = "colors" =>
            /\ Len(runs[r].colors) = Len(runs[r].allApps)
            /\ \A k \in 1..Len(runs[r].colors) :
                  /\ runs[r].colors[k] \in
                        {pendingColor, rejectedColor,
                         DominantColorOf(runs[r].allApps[k].artworkUrl100)}
                  /\ runs[r].colors[k] = pendingColor =>
                        /\ ENABLED ExtractionSettles(r, k, FALSE)
                        /\ ENABLED ExtractionSettles(r, k, TRUE))
    /\ [][\A r \in Runs :
            (runs[r].pc = "colors" /\ Len(runs') = Len(runs)
                /\ runs'[r].colors # runs[r].colors) =>
                \E k \in 1..Len(runs[r].colors) :
                    /\ runs[r].colors[k] = pendingColor
                    /\ runs'[r].colors[k] # pendingColor
                    /\ \A j \in 1..Len(runs[r].colors) :
                          j # k => runs'[r].colors[j] = runs[r].colors[j]
                    /\ runs'[r].allApps = runs[r].allApps]_vars
    /\ [][\A r \in Runs :
            (runs[r].pc = "colors" /\ runs' = RunsWithout(r)) =>
                /\ Len(apps') = Len(runs[r].allApps)
                /\ \A k \in 1..Len(apps') :
                      /\ Uncoloured(apps'[k]) = runs[r].allApps[k]
                      /\ apps'[k].dominantColor \in
                            {fallbackColor,
                             DominantColorOf(runs[r].allApps[k].artworkUrl100)}]_vars

\* the call has written Alpha and Zeta in the order of its list, each with the colour
\* of its own icon, the two colours being different
C21_Witness ==
    /\ runs = <<>> /\ ~isLoading
    /\ Len(apps) = 2
    /\ apps[1].trackId = 222 /\ apps[1].dominantColor = DominantColorOf(apps[1].artworkUrl100)
    /\ apps[2].trackId = 111 /\ apps[2].dominantColor = DominantColorOf(apps[2].artworkUrl100)
    /\ apps[1].dominantColor # apps[2].dominantColor
    /\ fallbackColor \notin {apps[1].dominantColor, apps[2].dominantColor}

(***************************************************************************)
(* C22: the colour filter.  With the bucket 'all' the displayed list has   *)
(* the elements of apps, each as often as apps has it.  With any other     *)
(* bucket it has exactly the apps whose dominant colour, or #666666 for an *)
(* app without one, getClosestColorId classifies into that bucket.         *)
(* Clicking a colour dot leaves apps as it is and starts or advances no    *)
(* call.                                                                   *)
(***************************************************************************)
\* list b holds the elements of list a, each as often
SameElements(a, b) ==
    /\ Len(a) = Len(b)
    /\ \E p \in Permutations(1..Len(a)) : b = [k \in 1..Len(a) |-> a[p[k]]]

\* the apps getClosestColorId puts into the bucket
InBucket(id) ==
    SelectSeq(apps, LAMBDA app :
        GetClosestColorId(IF app.dominantColor = "" THEN "#666666"
                          ELSE app.dominantColor) = id)

C22_ColorFilter ==
    /\ [](IF selectedColor = "all" THEN SameElements(apps, DisplayedApps)
          ELSE SameElements(InBucket(selectedColor), DisplayedApps))
    /\ [][selectedColor' # selectedColor =>
            (apps' = apps /\ runs' = runs /\ isLoading' = isLoading)]_vars

\* Alpha, whose extraction rejected, and Zeta are loaded; the black dot is clicked and
\* only Alpha is displayed
C22_Witness ==
    /\ selectedColor = "black" /\ runs = <<>>
    /\ Len(apps) = 2
    /\ apps[1].trackName = "Alpha" /\ apps[1].dominantColor = fallbackColor
    /\ apps[2].trackName = "Zeta" /\ apps[2].dominantColor = "#ff4500"
    /\ Len(DisplayedApps) = 1 /\ DisplayedApps[1].trackName = "Alpha"

(***************************************************************************)
(* C23: getDominantColor resolves with the colour of the pixel buffer that *)
(* the most pixels have, the alpha values left aside; of the colours that  *)
(* the most pixels have it is the one met first in the buffer; for a       *)
(* buffer without pixels it is #666666.                                    *)
(***************************************************************************)
\* red, green and blue of pixel p of the buffer, p counting from 1
RgbOf(p) == <<dcData[4 * p - 3], dcData[4 * p - 2], dcData[4 * p - 1]>>

\* the pixels of the buffer with the colour of pixel p
PixelsLike(p) == {q \in 1..(Len(dcData) \div 4) : RgbOf(q) = RgbOf(p)}

\* the channels the string #rrggbb names
RgbOfHex(hex) ==
    <<16 * HexMatch(hex)[1] + HexMatch(hex)[2], 16 * HexMatch(hex)[3] + HexMatch(hex)[4],
      16 * HexMatch(hex)[5] + HexMatch(hex)[6]>>

C23_MostCommonFirstSeen ==
    dcPc = "resolved" =>
        IF Len(dcData) = 0 THEN dcColor = "#666666"
        ELSE /\ Len(dcColor) = 7 /\ CharAt(dcColor, 1) = "#" /\ HexMatch(dcColor) # <<>>
             /\ \E p \in 1..(Len(dcData) \div 4) :
                   /\ RgbOfHex(dcColor) = RgbOf(p)
                   /\ \A q \in 1..(Len(dcData) \div 4) :
                         /\ Cardinality(PixelsLike(q)) <= Cardinality(PixelsLike(p))
                         /\ q < p => Cardinality(PixelsLike(q)) < Cardinality(PixelsLike(p))

\* two pixels, a transparent grey (26, 26, 26) and then a blue (0, 10, 255): each
\* colour has one pixel and the grey, met first, is returned
C23_Witness ==
    /\ dcPc = "resolved"
    /\ dcData = <<26, 26, 26, 0, 0, 10, 255, 255>>
    /\ dcColor = "#1a1a1a"

(***************************************************************************)
(* C24: every call of loadAppsByCategory and searchApps resets the loading *)
(* flag when it ends, however it ends: the step in which a call ends       *)
(* leaves isLoading false, and in every state in which no call is in       *)
(* flight isLoading is false.                                              *)
(***************************************************************************)
C24_LoadingReset ==
    /\ [](runs = <<>> => ~isLoading)
    /\ [][Len(runs') < Len(runs) => ~isLoading']_vars
    /\ [][(isLoading /\ ~isLoading') => Len(runs') < Len(runs)]_vars

\* the first load found two applications in the catalog and ended without a list, the
\* store lookup having failed or found nothing; the spinner is off
C24_Witness ==
    /\ runs = <<>> /\ ~isLoading
    /\ selectedCategory = "app" /\ ~hasSearched
    /\ totalAppCount = 2 /\ apps = <<>>

(***************************************************************************)
(* C25: in every state in which no preview generation is suspended the     *)
(* preview matches the selection: previewDataUrl is null when nothing is   *)
(* selected and was generated from the selected cards otherwise, also when *)
(* the selection changed while a generation was suspended.                 *)
(***************************************************************************)
C25_PreviewMatchesSelection ==
    previews = <<>> =>
        IF selectedIds = <<>> THEN previewDataUrl = <<>>
        ELSE previewDataUrl = selectedIds

\* Alpha was selected while its icon was loading and the selection was cleared; the
\* icon then loaded and the preview of Alpha was set over the empty selection
C25_Reached ==
    /\ previews = <<>> /\ selectedIds = <<>>
    /\ previewDataUrl = <<"222">>
    /\ ~isLoading /\ Len(apps) = 2

(***************************************************************************)
(* C26: search mode and the list agree.  In every state without a call in  *)
(* flight, the apps displayed under hasSearched are among the results of   *)
(* the last search submitted, and the apps displayed without it are among  *)
(* the apps of the selected category; a category tab clicked while search  *)
(* results are shown does not leave hasSearched over the category's apps.  *)
(***************************************************************************)
\* the track ids of catalog records
CatalogTrackIds(list) == {ParseInt(list[k].app_store_id).v : k \in 1..Len(list)}

C26_SearchModeConsistent ==
    runs = <<>> =>
        \A k \in 1..Len(apps) :
            apps[k].trackId \in
                (IF hasSearched
                 THEN CatalogTrackIds(SearchAnswers[CatalogSheet, lastSearchValue])
                 ELSE CatalogTrackIds(CategoryAnswers[CatalogSheet, selectedCategory]))

\* 'ze' was searched on the application tab and Zeta shown; the game tab was clicked
\* and its load wrote Beta, the game of the catalog, with hasSearched still set
C26_Reached ==
    /\ runs = <<>> /\ ~isLoading
    /\ hasSearched /\ lastSearchValue = "ze" /\ searchTerm = "ze"
    /\ selectedCategory = "game"
    /\ Len(apps) = 1 /\ apps[1].trackId = 333

(***************************************************************************)
(* C27: a single-icon export always comes to an end.  While a call of      *)
(* handleCopyLogo is suspended, the event it waits for can happen: the     *)
(* load or error event of the icon, the bitmap or its absence, the         *)
(* clipboard write resolving or rejecting; each of these steps leads on or *)
(* writes a status.  Every status entry has a timer that removes it.       *)
(***************************************************************************)
\* the events a suspended handleCopyLogo call can go on with
SingleGoesOn ==
    \/ ImageLoads \/ ImageErrors
    \/ SingleBlobReady \/ SingleBlobFails
    \/ SingleClipboardWritten \/ SingleClipboardRejects

C27_SingleExportEnds ==
    /\ single.pc # "idle" => ENABLED SingleGoesOn
    /\ \A appId \in DOMAIN copyStatus : ENABLED StatusExpires(appId)

\* the Copy button of Alpha was clicked after its icon had failed to load: the call
\* waits for a load or error event that has already happened, and no status is set
C27_Reached ==
    /\ single.pc = "load" /\ single.img = "failed" /\ single.appId = "222"
    /\ "222" \notin DOMAIN copyStatus
    /\ ~ENABLED SingleGoesOn

(***************************************************************************)
(* C28: the count in the file name app-logos-<count>.png of a downloaded   *)
(* combined sheet is the number of icons drawn into that sheet, whatever   *)
(* selections, loads and colour filter changes came before the export.     *)
(***************************************************************************)
C28_FileNameCountsIcons ==
    [][DownloadsCombined => lastCall' = CombinedFileNames[Len(combined.imgs)]]_vars

\* Alpha and Zeta were selected and the black dot clicked, which leaves the card of
\* Alpha; Copy combined was clicked without clipboard support: the sheet holds the
\* icon of Alpha and is about to be downloaded under the count of the selection
C28_Reached ==
    /\ selectedColor = "black"
    /\ combined.pc = "blob" /\ ~combined.clipboard
    /\ combined.ids = <<"222", "111">> /\ combined.imgs = <<"222">>
    /\ ENABLED (BlobReady /\ lastCall' = CombinedFileNames[2])

====
